---------------------------- MODULE Spec2Model ----------------------------
(***************************************************************************)
(* A model of pxshot-c: the response buffer filled by the transport        *)
(* (pxshot_write_callback), the bundled minimal cJSON (document model,     *)
(* parser, serializer), and the way the client drives its CURL handle.     *)
(*                                                                         *)
(* Conventions.  A C pointer is a natural number, NULL is 0.  A C array    *)
(* is a TLA+ sequence, so C index i is TLA+ index i + 1.  Bytes are their  *)
(* ASCII codes.  Each subsystem has its own specification over its own     *)
(* variables; the other variables stay at their initial values.            *)
(***************************************************************************)
EXTENDS Integers, Sequences, FiniteSets, TLC

VARIABLES
    buf,      \* pxshot_buffer_t: [data, len, cap]
    bmem,     \* the heap block buf.data points at: [size, bytes]
    sent,     \* history: indices (into ChunkTable) of the chunks appended
    last,     \* history: what the last call of the write callback did
    client,   \* struct pxshot_client: [curl]
    handles,  \* the CURL easy handles: handle -> its options and results
    tpc,      \* thread -> where it is in its request
    tloc,     \* thread -> the locals of its request
    heap,     \* what malloc has handed out to cJSON: nodes and strings
    input,    \* the text given to cJSON_Parse, and where it came from
    jst,      \* where the user of cJSON is
    tree,     \* cJSON *: the document parsed or being built
    copy,     \* cJSON *: the document parsed back from the printed text
    sub,      \* cJSON *: a container created and not yet attached
    jres,     \* history: what the last call of the library did
    calls,    \* history: the items added, [object, item], in call order
    shot,     \* pxshot_screenshot: its arguments, its locals, where it is
    resp      \* pxshot_response_t: the response pxshot_screenshot fills

bvars == <<buf, bmem, sent, last>>

cvars == <<client, handles, tpc, tloc>>

jvars == <<heap, input, jst, tree, copy, sub, jres, calls>>

svars == <<shot, resp>>

vars ==
    <<buf, bmem, sent, last, client, handles, tpc, tloc,
      heap, input, jst, tree, copy, sub, jres, calls, shot, resp>>

NULL == 0

\* The null pointer where the bytes of a string are expected.
NoString == << 0 - 1 >>

Max(a, b) == IF a >= b THEN a ELSE b

Min(a, b) == IF a <= b THEN a ELSE b

\* The cJSON variables while the library is not in use; the fields are
\* explained where section 3 uses them.
EmptyHeap ==
    [node |-> << >>, str |-> << >>, liveN |-> {}, liveS |-> {}, bad |-> 0,
     ovf |-> 0, fault |-> 0, n |-> 0, failAt |-> 0, hi |-> 0,
     failed |-> FALSE]

NoEdit == [kind |-> "none", at |-> 0, byte |-> 0]

NoInput ==
    [doc |-> 0, text |-> << >>, tail |-> << >>, edit |-> NoEdit,
     block |-> NULL, of |-> "none"]

NoResult ==
    [kind |-> "none", ret |-> NULL, arg |-> << >>, oom |-> FALSE,
     failed |-> FALSE, hi |-> 0, end |-> NULL, nodes0 |-> {}, strs0 |-> {},
     bad0 |-> 0]

PXSHOT_OK == 0

\* The null pointer where a pxshot_stored_t is expected; a pointer to one
\* is the sequence of the one struct.
NoStored == << >>

\* pxshot_screenshot_opts_t opts = {0};
NoOpts ==
    [url |-> NoString, format |-> 0, quality |-> 0, width |-> 0,
     height |-> 0, full_page |-> FALSE, wait_until |-> 0,
     wait_for_selector |-> NoString, wait_for_timeout |-> 0,
     device_scale_factor |-> 0, store |-> FALSE, block_ads |-> FALSE]

\* pxshot_screenshot and pxshot_get_usage before they are called: op is
\* the one called, given which of its pointers are not NULL.  Of the
\* locals: i is the next line of the body to add, json_str the serialized
\* body, res what curl_easy_perform returned, buffer the bytes received
\* (NoString: none, buffer.data is NULL), usage what *usage points to;
\* blocks are the blocks of the C heap allocated for the response and the
\* buffer; history: lost, the lines whose cJSON_Add*ToObject returned
\* NULL, and posted, the bodies given to the transport.
NoShot ==
    [pc |-> "idle", op |-> "none", given |-> "all", opts |-> NoOpts,
     i |-> 0, lost |-> {}, json_str |-> NULL, posted |-> << >>,
     res |-> "none", buffer |-> NoString, usage |-> NoStored,
     blocks |-> [live |-> {}, bad |-> 0, stale |-> FALSE],
     returned |-> "none"]

\* calloc(1, sizeof(pxshot_response_t)); at names the block each pointer
\* of the response holds ("NULL": none), self the response's own.
NoResp ==
    [error |-> PXSHOT_OK, http_status |-> 0, error_message |-> NoString,
     data |-> NoString, data_len |-> 0, stored |-> NoStored,
     at |-> [self |-> "NULL", error_message |-> "NULL", data |-> "NULL",
             stored |-> "NULL", url |-> "NULL", expires_at |-> "NULL"]]

ShotIdle == shot = NoShot /\ resp = NoResp

JsonIdle ==
    /\ heap = EmptyHeap
    /\ input = NoInput
    /\ jst = "idle"
    /\ tree = NULL
    /\ copy = NULL
    /\ sub = NULL
    /\ jres = NoResult
    /\ calls = << >>

(***************************************************************************)
(*                    1.  THE GROWABLE RESPONSE BUFFER                     *)
(***************************************************************************)

\* The seed capacity of the buffer.
SeedCap == 4096

\* How many times the transport calls the write callback in one session.
MaxAppends == 3

\* A byte of a heap block that was never written.
Uninit == -1

(* Byte strings of the buffer are kept run-length encoded: a sequence of   *)
(* runs [b |-> byte, n |-> count], count > 0, adjacent runs of different   *)
(* bytes.  Every byte string has exactly one such encoding, so equality of *)
(* encodings is equality of byte strings.                                  *)
Run(b, n) == IF n > 0 THEN << [b |-> b, n |-> n] >> ELSE << >>

\* The number of bytes of r.
RECURSIVE RLen(_)
RLen(r) == IF r = << >> THEN 0 ELSE r[1].n + RLen(Tail(r))

\* r followed by s.
RCat(r, s) ==
    IF r = << >> THEN s
    ELSE IF s = << >> THEN r
    ELSE IF r[Len(r)].b = s[1].b
    THEN SubSeq(r, 1, Len(r) - 1)
         \o << [b |-> s[1].b, n |-> r[Len(r)].n + s[1].n] >> \o Tail(s)
    ELSE r \o s

\* The first k bytes of r (all of r when it is shorter).
RECURSIVE RTake(_, _)
RTake(r, k) ==
    IF k <= 0 \/ r = << >> THEN << >>
    ELSE IF r[1].n >= k THEN Run(r[1].b, k)
    ELSE << r[1] >> \o RTake(Tail(r), k - r[1].n)

\* r without its first k bytes.
RECURSIVE RDrop(_, _)
RDrop(r, k) ==
    IF r = << >> THEN << >>
    ELSE IF k <= 0 THEN r
    ELSE IF r[1].n > k THEN << [b |-> r[1].b, n |-> r[1].n - k] >> \o Tail(r)
    ELSE RDrop(Tail(r), k - r[1].n)

\* The byte at C index i of r; Uninit when r is shorter.
RECURSIVE RAt(_, _)
RAt(r, i) ==
    IF r = << >> THEN Uninit
    ELSE IF i < r[1].n THEN r[1].b
    ELSE RAt(Tail(r), i - r[1].n)

\* The chunks the transport delivers: an empty one (libcurl calls the
\* callback with zero bytes for an empty body), a short one, one that fills
\* the seed capacity to the last byte after the short one, and one that needs
\* more than one doubling.
ChunkTable ==
    << << >>,
       Run(104, 1) \o Run(105, 1),
       Run(97, SeedCap - 100) \o Run(98, 97),
       Run(99, 2 * SeedCap) >>

ChunkIds == 1..Len(ChunkTable)

\* The addresses realloc may return.
Addrs == {1, 2}

\* The outcomes of realloc(ptr, n): failure, or success at some address
\* (the same one: grown in place; another one: moved, the old block freed).
ReallocOutcomes == {NULL} \cup Addrs

\* while (newcap < buf->len + realsize + 1) newcap *= 2;
RECURSIVE DoubleUntil(_, _)
DoubleUntil(newcap, need) ==
    IF newcap < need THEN DoubleUntil(newcap * 2, need) ELSE newcap

\* A plausible slip: allocate exactly what is needed instead of doubling.
NewCap_Exact(cap, need) == need

\* A plausible slip: the terminator is forgotten in the size needed.
NewCap_NoTerminator(cap, need) ==
    DoubleUntil(IF cap = 0 THEN SeedCap ELSE cap * 2, need - 1)

\* size_t newcap = (buf->cap == 0) ? 4096 : buf->cap * 2; while ...
NewCap(cap, need) ==
    DoubleUntil(IF cap = 0 THEN SeedCap ELSE cap * 2, need)

\* The block after realloc(ptr, n) succeeded: its first min(old, new) bytes
\* are kept, the rest is not initialised.
Resized(m, n) == [size |-> n, bytes |-> RTake(m.bytes, n)]

\* bytes written at C offset off of a block; what lies between the bytes
\* written so far and off stays uninitialised.
Poke(m, off, bytes) ==
    LET old == m.bytes
        padded == RCat(old, Run(Uninit, off - RLen(old)))
    IN  [m EXCEPT !.bytes =
            RCat(RCat(RTake(padded, off), bytes),
                 RDrop(old, off + RLen(bytes)))]

\* A plausible slip: the chunk is copied to the start of the buffer.
CopyChunk_AtStart(b, m, contents) == Poke(m, 0, contents)

\* memcpy(buf->data + buf->len, contents, realsize);
CopyChunk(b, m, contents) == Poke(m, b.len, contents)

\* A plausible slip: the terminator is not written.
Terminate_Forgotten(b, m) == m

\* buf->data[buf->len] = 0;
Terminate(b, m) == Poke(m, b.len, Run(0, 1))

\* A plausible slip: buf->data = realloc(buf->data, newcap) before the test.
OnReallocFailure_Clobber(b) == [b EXCEPT !.data = NULL]

\* if (!newdata) return 0;  (nothing was assigned yet)
OnReallocFailure(b) == b

\* The whole callback on buffer b with block m: the buffer and the block
\* after it, what it returns, and whether a write went outside the block.
WriteCallback(b, m, contents, ra) ==
    LET realsize == RLen(contents)
        need == b.len + realsize + 1
        grow == need > b.cap
        newcap == NewCap(b.cap, need)
    IN  IF grow /\ ra = NULL
        THEN [buf |-> OnReallocFailure(b), mem |-> m, ret |-> 0,
              path |-> "oom", overflow |-> FALSE]
        ELSE LET b1 == IF grow THEN [b EXCEPT !.data = ra, !.cap = newcap]
                       ELSE b
                 m1 == IF grow THEN Resized(m, newcap) ELSE m
                 m2 == CopyChunk(b1, m1, contents)
                 b2 == [b1 EXCEPT !.len = b1.len + realsize]
                 m3 == Terminate(b2, m2)
             IN  [buf |-> b2, mem |-> m3, ret |-> realsize, path |-> "ok",
                  overflow |-> RLen(m3.bytes) > m3.size]

\* The threads that share one client.
Threads == {1, 2}

\* A CURL easy handle with no option set and no transfer done: what
\* curl_easy_init returns and what curl_easy_reset leaves.
Unset == [owner |-> 0, field |-> "unset"]

BlankHandle ==
    [url |-> Unset, httpheader |-> Unset, postfields |-> Unset,
     writedata |-> Unset, timeout_ms |-> Unset, response_code |-> Unset,
     content_type |-> Unset]

\* The client as pxshot_new_with_config leaves it (one handle, made by
\* curl_easy_init), and no request running.
ConcIdle ==
    /\ client = [curl |-> 1]
    /\ handles = [h \in {1} |-> BlankHandle]
    /\ tpc = [t \in Threads |-> "idle"]
    /\ tloc = [t \in Threads |-> [kind |-> "none", curl |-> NULL]]

BufIdle ==
    /\ buf = [data |-> NULL, len |-> 0, cap |-> 0]
    /\ bmem = [size |-> 0, bytes |-> << >>]
    /\ sent = << >>
    /\ last = [kind |-> "none", calls |-> 0, ooms |-> 0]

BufInit == BufIdle /\ ConcIdle /\ JsonIdle /\ ShotIdle

\* libcurl ends the transfer as soon as the callback returns something else
\* than the number of bytes it was given.
Aborted == last.kind = "append" /\ last.ret # last.realsize

\* The transport delivers chunk c; realloc, if called, ends as ra.
pxshot_write_callback(c, ra) ==
    /\ last.calls < MaxAppends
    /\ ~Aborted
    /\ LET r == WriteCallback(buf, bmem, ChunkTable[c], ra)
       IN  /\ buf' = r.buf
           /\ bmem' = r.mem
           /\ sent' = IF r.path = "ok" THEN Append(sent, c) ELSE sent
           /\ last' = [kind |-> "append", chunk |-> c,
                       realsize |-> RLen(ChunkTable[c]), ret |-> r.ret,
                       path |-> r.path, overflow |-> r.overflow,
                       calls |-> last.calls + 1,
                       ooms |-> last.ooms + (IF r.path = "oom" THEN 1 ELSE 0)]
    /\ UNCHANGED <<cvars, jvars, svars>>

BufNext ==
    \E c \in ChunkIds, ra \in ReallocOutcomes : pxshot_write_callback(c, ra)

SpecBuf == BufInit /\ [][BufNext]_vars

(***************************************************************************)
(*                     Properties of the growable buffer                   *)
(***************************************************************************)

\* The chunks ids, one after the other.
RECURSIVE ConcatChunks(_)
ConcatChunks(ids) ==
    IF ids = << >> THEN << >>
    ELSE RCat(ChunkTable[ids[1]], ConcatChunks(Tail(ids)))

\* 2^k
RECURSIVE Pow2(_)
Pow2(k) == IF k = 0 THEN 1 ELSE 2 * Pow2(k - 1)

\* Enough doublings for every capacity the bounded sessions reach.
Doublings == 0..(MaxAppends + 3)

\* C1: after any sequence of successful appends to a buffer that started
\* empty, the first len bytes of the buffer are the chunks appended, in call
\* order, whole and unchanged, also across reallocations; no write leaves
\* the block.
C1_ContentsAreConcatenation ==
    (last.kind = "append" /\ last.ooms = 0) =>
        /\ buf.len = RLen(ConcatChunks(sent))
        /\ RTake(bmem.bytes, buf.len) = ConcatChunks(sent)
        /\ ~last.overflow

\* C1's case: three chunks, more bytes than the seed capacity, the block
\* reallocated more than once and moved.
C1_Witness ==
    /\ last.kind = "append" /\ last.ooms = 0
    /\ sent = <<2, 3, 4>>
    /\ buf.len > 2 * SeedCap
    /\ buf.cap = 4 * SeedCap

\* C2: once an append has succeeded, len + 1 <= cap, the byte at index len
\* is zero, and len counts the chunks' bytes only, not that zero.
C2_TerminatedWithSpareByte ==
    Len(sent) >= 1 =>
        /\ buf.len + 1 <= buf.cap
        /\ bmem.size = buf.cap
        /\ RAt(bmem.bytes, buf.len) = 0
        /\ buf.len = RLen(ConcatChunks(sent))

\* C2's case: the chunks fill the block to the last byte, which holds the
\* terminator.
C2_Witness ==
    /\ Len(sent) >= 2
    /\ buf.len + 1 = buf.cap
    /\ RAt(bmem.bytes, buf.len) = 0

\* What one call of the callback may do to the capacity: it never lowers
\* it, keeps it 0 or 4096 * 2^k, changes it only when len + size + 1 > cap,
\* and then to the first of start, 2 start, 4 start, ... that is enough,
\* start being 4096 for an empty buffer and twice the capacity otherwise.
C3_Step ==
    LET need == buf.len + last'.realsize + 1
        start == IF buf.cap = 0 THEN SeedCap ELSE 2 * buf.cap
    IN  /\ buf'.cap >= buf.cap
        /\ buf'.cap = 0 \/ \E k \in Doublings : buf'.cap = SeedCap * Pow2(k)
        /\ buf'.cap # buf.cap =>
              /\ need > buf.cap
              /\ \E k \in Doublings :
                    /\ buf'.cap = start * Pow2(k)
                    /\ buf'.cap >= need
                    /\ \A j \in 0..(k - 1) : start * Pow2(j) < need
        /\ (last'.path = "ok" /\ need > buf.cap) => buf'.cap # buf.cap

\* C3: within a session the capacity never decreases, is 0 or 4096 * 2^k,
\* and grows only when needed, to the smallest sufficient doubling.
C3_CapacityDoubles == [][C3_Step]_vars

\* C3's case: one append that needs two doublings of the seed.
C3_Witness ==
    /\ sent = <<4>>
    /\ buf.cap = 4 * SeedCap

\* C4: when realloc fails, the callback returns 0, which is not the size
\* of the chunk, and the buffer is as it was before the call.
C4_OomStep ==
    last'.path = "oom" =>
        /\ last'.ret = 0
        /\ last'.ret # last'.realsize
        /\ buf' = buf /\ bmem' = bmem /\ sent' = sent

C4_ReallocFailureReported == [][C4_OomStep]_vars

(***************************************************************************)
(*          2.  ONE CLIENT, SEVERAL THREADS: THE CURL EASY HANDLE          *)
(*                                                                         *)
(* Each libcurl call of a request is one step; the steps of two requests   *)
(* interleave freely, since neither the client nor the requests lock.  An  *)
(* option value or a result is tagged with the request it belongs to.      *)
(***************************************************************************)

RequestKinds == {"screenshot", "usage"}

\* A value that request t (of kind k) made for field f.
Of(t, f) == [owner |-> t, field |-> f]

\* A plausible alternative, and what the README describes: a handle of the
\* request's own (curl_easy_init per request).
HandleOfRequest_Own(t) == 1 + t

\* CURL *curl = client->curl;
HandleOfRequest(t) == client.curl

SetOpt(h, f, v) == handles' = [handles EXCEPT ![h] = [@ EXCEPT ![f] = v]]

\* pxshot_screenshot / pxshot_get_usage up to their "Setup CURL".
BeginRequest(t, k) ==
    /\ tpc[t] = "idle"
    /\ tloc[t].kind = "none"
    /\ tloc' = [tloc EXCEPT ![t] = [kind |-> k, curl |-> NULL]]
    /\ tpc' = [tpc EXCEPT ![t] = "reset"]
    /\ UNCHANGED <<client, handles>>

\* CURL *curl = client->curl; curl_easy_reset(curl);
ResetHandle(t) ==
    /\ tpc[t] = "reset"
    /\ LET h == HandleOfRequest(t)
       IN  /\ tloc' = [tloc EXCEPT ![t].curl = h]
           /\ handles' = [g \in DOMAIN handles \cup {h} |->
                             IF g = h THEN BlankHandle ELSE handles[g]]
    /\ tpc' = [tpc EXCEPT ![t] = "setopt_url"]
    /\ UNCHANGED client

\* curl_easy_setopt(curl, CURLOPT_URL, url);
SetUrl(t) ==
    /\ tpc[t] = "setopt_url"
    /\ SetOpt(tloc[t].curl, "url", Of(t, "url"))
    /\ tpc' = [tpc EXCEPT ![t] = "setopt_headers"]
    /\ UNCHANGED <<client, tloc>>

\* curl_easy_setopt(curl, CURLOPT_HTTPHEADER, headers);
SetHeaders(t) ==
    /\ tpc[t] = "setopt_headers"
    /\ SetOpt(tloc[t].curl, "httpheader", Of(t, "headers"))
    /\ tpc' = [tpc EXCEPT ![t] =
                  IF tloc[t].kind = "screenshot" THEN "setopt_post"
                  ELSE "setopt_write"]
    /\ UNCHANGED <<client, tloc>>

\* curl_easy_setopt(curl, CURLOPT_POSTFIELDS, json_str);  (screenshot only)
SetPostFields(t) ==
    /\ tpc[t] = "setopt_post"
    /\ SetOpt(tloc[t].curl, "postfields", Of(t, "json_str"))
    /\ tpc' = [tpc EXCEPT ![t] = "setopt_write"]
    /\ UNCHANGED <<client, tloc>>

\* curl_easy_setopt(curl, CURLOPT_WRITEFUNCTION, pxshot_write_callback);
\* curl_easy_setopt(curl, CURLOPT_WRITEDATA, &buffer);
\* curl_easy_setopt(curl, CURLOPT_TIMEOUT_MS, client->timeout_ms);
SetWriteData(t) ==
    /\ tpc[t] = "setopt_write"
    /\ handles' = [handles EXCEPT ![tloc[t].curl] =
                      [@ EXCEPT !.writedata = Of(t, "buffer"),
                                !.timeout_ms = Of(t, "timeout_ms")]]
    /\ tpc' = [tpc EXCEPT ![t] = "perform"]
    /\ UNCHANGED <<client, tloc>>

\* CURLcode res = curl_easy_perform(curl);  The transfer is the one the
\* handle's options describe at that moment; its status and content type
\* stay in the handle.
Perform(t) ==
    /\ tpc[t] = "perform"
    /\ LET h == tloc[t].curl
           o == handles[h]
       IN  /\ tloc' = [tloc EXCEPT ![t] =
                          [kind |-> @.kind, curl |-> h,
                           used |-> [url |-> o.url,
                                     httpheader |-> o.httpheader,
                                     postfields |-> o.postfields,
                                     writedata |-> o.writedata]]]
           /\ handles' = [handles EXCEPT ![h] =
                             [@ EXCEPT !.response_code = Of(t, "status"),
                                       !.content_type = Of(t, "ctype")]]
    /\ tpc' = [tpc EXCEPT ![t] = "getinfo"]
    /\ UNCHANGED client

\* curl_easy_getinfo(curl, CURLINFO_RESPONSE_CODE, &http_code);
\* curl_easy_getinfo(curl, CURLINFO_CONTENT_TYPE, &content_type);
GetInfo(t) ==
    /\ tpc[t] = "getinfo"
    /\ LET o == handles[tloc[t].curl]
       IN  tloc' = [tloc EXCEPT ![t] =
                       [kind |-> @.kind, curl |-> @.curl, used |-> @.used,
                        http_code |-> o.response_code,
                        content_type |-> o.content_type]]
    /\ tpc' = [tpc EXCEPT ![t] = "done"]
    /\ UNCHANGED <<client, handles>>

ConcNext ==
    /\ \E t \in Threads :
          \/ \E k \in RequestKinds : BeginRequest(t, k)
          \/ ResetHandle(t)
          \/ SetUrl(t)
          \/ SetHeaders(t)
          \/ SetPostFields(t)
          \/ SetWriteData(t)
          \/ Perform(t)
          \/ GetInfo(t)
    /\ UNCHANGED <<bvars, jvars, svars>>

ConcInit == BufIdle /\ ConcIdle /\ JsonIdle /\ ShotIdle

SpecConc == ConcInit /\ [][ConcNext]_vars

\* The options request t sets before it performs.
OwnOptions(t) ==
    [url |-> Of(t, "url"), httpheader |-> Of(t, "headers"),
     postfields |-> IF tloc[t].kind = "screenshot" THEN Of(t, "json_str")
                    ELSE Unset,
     writedata |-> Of(t, "buffer")]

\* C5: a client may be used by several threads at once: each request has
\* a handle of its own, so the transfer a request performs is the one it
\* configured (its URL, headers, body and write buffer), and the status and
\* content type it reads are those of its own transfer.
C5_RequestsDoNotShareHandle ==
    \A t \in Threads :
        /\ tpc[t] \in {"getinfo", "done"} => tloc[t].used = OwnOptions(t)
        /\ tpc[t] = "done" =>
              /\ tloc[t].http_code = Of(t, "status")
              /\ tloc[t].content_type = Of(t, "ctype")

(***************************************************************************)
(*                        3.  THE BUNDLED cJSON                            *)
(***************************************************************************)

Ascii ==
    (" " :> 32) @@ ("\"" :> 34) @@ ("+" :> 43) @@ ("," :> 44) @@ ("-" :> 45)
    @@ ("." :> 46) @@ ("0" :> 48) @@ ("1" :> 49) @@ ("2" :> 50)
    @@ ("3" :> 51) @@ ("4" :> 52) @@ ("5" :> 53) @@ ("6" :> 54)
    @@ ("7" :> 55) @@ ("8" :> 56) @@ ("9" :> 57) @@ (":" :> 58)
    @@ ("E" :> 69) @@ ("[" :> 91) @@ ("\\" :> 92) @@ ("]" :> 93)
    @@ ("a" :> 97) @@ ("b" :> 98) @@ ("c" :> 99) @@ ("e" :> 101)
    @@ ("f" :> 102) @@ ("l" :> 108) @@ ("n" :> 110) @@ ("r" :> 114)
    @@ ("s" :> 115) @@ ("t" :> 116) @@ ("u" :> 117) @@ ("x" :> 120)
    @@ ("{" :> 123) @@ ("}" :> 125) @@ ("_" :> 95) @@ ("d" :> 100)
    @@ ("g" :> 103) @@ ("h" :> 104) @@ ("i" :> 105) @@ ("j" :> 106)
    @@ ("k" :> 107) @@ ("m" :> 109) @@ ("o" :> 111) @@ ("p" :> 112)
    @@ ("q" :> 113) @@ ("v" :> 118) @@ ("w" :> 119) @@ ("y" :> 121)
    @@ ("z" :> 122)

\* The code of a character, and the bytes of a text given as characters.
Ch(c) == Ascii[c]

Str(t) == [i \in 1..Len(t) |-> Ascii[t[i]]]

IsDigit(c) == c >= 48 /\ c <= 57

\* The text up to its first zero byte: what strlen, strcmp and %s see.
RECURSIVE CStr(_)
CStr(bytes) ==
    IF bytes = << >> \/ bytes[1] = 0 THEN << >>
    ELSE << bytes[1] >> \o CStr(Tail(bytes))

(***************************************************************************)
(* Numbers.  A double is kept as a decimal m * 10^e with m not divisible   *)
(* by 10 (0 is [m |-> 0, e |-> 0]), and arithmetic on it is exact: the     *)
(* rounding of binary floating point is not modelled, the precision of     *)
(* the %g conversion is.                                                   *)
(***************************************************************************)

INT_MAX == 2147483647

INT_MIN == (0 - INT_MAX) - 1

RECURSIVE Pow10(_)
Pow10(k) == IF k <= 0 THEN 1 ELSE 10 * Pow10(k - 1)

Abs(n) == IF n < 0 THEN 0 - n ELSE n

RECURSIVE Norm(_, _)
Norm(m, e) ==
    IF m = 0 THEN [m |-> 0, e |-> 0]
    ELSE IF m % 10 = 0 THEN Norm(m \div 10, e + 1)
    ELSE [m |-> m, e |-> e]

\* The number of decimal digits of n > 0.
RECURSIVE NDigits(_)
NDigits(n) == IF n < 10 THEN 1 ELSE 1 + NDigits(n \div 10)

\* The decimal digits of n >= 0, as characters.
RECURSIVE Digits(_)
Digits(n) ==
    IF n < 10 THEN << 48 + n >> ELSE Digits(n \div 10) \o << 48 + (n % 10) >>

\* INT_MIN <= d <= INT_MAX.  (INT_MIN is -INT_MAX - 1; a decimal in
\* canonical form with e >= 0 and more than ten digits is out of range.)
InIntRange(d) ==
    IF d.m = INT_MIN THEN d.e <= 0 ELSE
    \/ d.e < 0 /\ (d.e < -9 \/ NDigits(Abs(d.m)) + d.e <= 9
                   \/ Abs(d.m) \div Pow10(0 - d.e) <= INT_MAX)
    \/ d.m = 0
    \/ /\ d.e >= 0 /\ d.m # 0
       /\ NDigits(Abs(d.m)) + d.e <= 10
       /\ \/ NDigits(Abs(d.m)) + d.e <= 9
          \/ Abs(d.m) <= INT_MAX \div Pow10(d.e)

\* (int)d: the value truncated toward zero.  Out of the range of int the
\* conversion is undefined; the model takes what x86 stores, INT_MIN.
IntOf(d) ==
    IF ~InIntRange(d) THEN INT_MIN
    ELSE IF d.e >= 0 THEN d.m * Pow10(d.e)
    ELSE IF d.e < -9 THEN 0
    ELSE IF d.m < 0 THEN 0 - ((0 - d.m) \div Pow10(0 - d.e))
    ELSE d.m \div Pow10(0 - d.e)

\* DBL_EPSILON is 2.220446049250313e-16: the largest m with
\* m * 10^-k <= DBL_EPSILON, for k = 16, 17, ...
EpsMantissa ==
    << 2, 22, 222, 2220, 22204, 222044, 2220446, 22204460, 222044604 >>

\* fabs(((double)item->valueint) - item->valuedouble) <= DBL_EPSILON
DiffLeEps(valueint, d) ==
    /\ valueint = IntOf(d)
    /\ \/ d.e >= 0
       \/ /\ d.e <= -16
          /\ \/ d.e < -24
             \/ Abs(d.m) <= EpsMantissa[(0 - d.e) - 15]

\* The digits of -n for n < 0, computed without forming -INT_MIN.
RECURSIVE DigitsOfNegative(_)
DigitsOfNegative(n) ==
    IF n > 0 - 10 THEN << 48 - n >>
    ELSE DigitsOfNegative((n \div 10) + (IF n % 10 = 0 THEN 0 ELSE 1))
         \o << 48 + ((10 - (n % 10)) % 10) >>

\* sprintf(str, "%d", n)
FormatD(n) ==
    IF n < 0 THEN << 45 >> \o DigitsOfNegative(n) ELSE Digits(n)

\* The digits of a positive m rounded to at most six significant ones (ties
\* to even), as [q: the digits as a number, x: the exponent of the first].
RoundSix(m, e) ==
    LET k == NDigits(m)
    IN  IF k <= 6 THEN [q |-> m, x |-> k - 1 + e]
        ELSE LET unit == Pow10(k - 6)
                 q0 == m \div unit
                 r == m % unit
                 up == 2 * r > unit \/ (2 * r = unit /\ q0 % 2 = 1)
                 q1 == IF up THEN q0 + 1 ELSE q0
             IN  IF q1 = 1000000 THEN [q |-> 1, x |-> k + e]
                 ELSE [q |-> Norm(q1, 0).m, x |-> k - 1 + e]

Zeros(n) == [i \in 1..n |-> 48]

\* sprintf(str, "%g", d) for d # 0: six significant digits, trailing zeros
\* removed, exponent form when the exponent is below -4 or at least 6.
FormatG(d) ==
    LET r == RoundSix(Abs(d.m), d.e)
        ds == Digits(r.q)
        j == Len(ds)
        x == r.x
        sign == IF d.m < 0 THEN << 45 >> ELSE << >>
        expo == (IF x < 0 THEN << 45 >> ELSE << 43 >>)
                \o (IF Abs(x) < 10 THEN << 48 >> ELSE << >>) \o Digits(Abs(x))
    IN  sign \o
        (IF x < -4 \/ x >= 6
         THEN << ds[1] >>
              \o (IF j > 1 THEN << 46 >> \o SubSeq(ds, 2, j) ELSE << >>)
              \o << 101 >> \o expo
         ELSE IF x < 0
         THEN << 48, 46 >> \o Zeros((0 - x) - 1) \o ds
         ELSE IF j <= x + 1
         THEN ds \o Zeros(x + 1 - j)
         ELSE SubSeq(ds, 1, x + 1) \o << 46 >> \o SubSeq(ds, x + 2, j))

\* The text print_number writes for a node with these two fields.
NumberText(valueint, d) ==
    IF d.m = 0 THEN << 48 >>
    ELSE IF DiffLeEps(valueint, d) /\ InIntRange(d) THEN FormatD(valueint)
    ELSE FormatG(d)

(***************************************************************************)
(* The heap.  Nodes and character blocks are numbered in the order malloc  *)
(* hands them out, and a number is never handed out twice, so a stale      *)
(* pointer stays recognisable.  A heap h is                                *)
(*   node    the cJSON structs, by address                                 *)
(*   str     the character blocks, by address: [size, bytes], bytes being  *)
(*           the text written, without its terminating zero                *)
(*   liveN, liveS   the addresses malloc'ed and not yet freed              *)
(*   bad     how many times free was given an address that is not live     *)
(*   ovf     how many times more was written to a block than its size      *)
(*   fault   how many times a null pointer was dereferenced                *)
(*   n, failAt      the calls of malloc made by the current call of the    *)
(*           library, and which of them fails (0: none)                    *)
(*   hi      history: the largest input index the parser has examined      *)
(*   failed  history: some production of the parser has reported failure   *)
(***************************************************************************)

cJSON_Invalid == 0
cJSON_False == 1
cJSON_True == 2
cJSON_NULL == 4
cJSON_Number == 8
cJSON_String == 16
cJSON_Array == 32
cJSON_Object == 64
cJSON_IsReference == 256
cJSON_StringIsConst == 512

\* item->type & 0xFF, and item->type & flag for a one-bit flag.
TypeOf(type) == type % 256

HasFlag(type, flag) == (type \div flag) % 2 = 1

Zero == [m |-> 0, e |-> 0]

\* memset(node, 0, sizeof(cJSON)); src is history: where in the input the
\* parser began the member this node holds.
BlankNode ==
    [next |-> NULL, prev |-> NULL, child |-> NULL, type |-> cJSON_Invalid,
     valuestring |-> NULL, valueint |-> 0, valuedouble |-> Zero,
     string |-> NULL, src |-> 0]

FreedBlock == [size |-> 0, bytes |-> << >>]

\* The heap as a call of the library finds it: the f-th malloc will fail.
Entering(h, f) == [h EXCEPT !.n = 0, !.failAt = f, !.hi = 0, !.failed = FALSE]

\* Whether the next call of malloc fails.
MallocFails(h) == h.n + 1 = h.failAt

\* cJSON_New_Item: [h, p], p = NULL when malloc failed.
cJSON_New_Item(h) ==
    IF MallocFails(h) THEN [h |-> [h EXCEPT !.n = @ + 1], p |-> NULL]
    ELSE [h |-> [h EXCEPT !.n = @ + 1, !.node = Append(@, BlankNode),
                          !.liveN = @ \cup {Len(h.node) + 1}],
          p |-> Len(h.node) + 1]

\* malloc(size) of a character block, then bytes and a zero written to it.
AllocStr(h, size, bytes) ==
    IF MallocFails(h) THEN [h |-> [h EXCEPT !.n = @ + 1], p |-> NULL]
    ELSE [h |-> [h EXCEPT !.n = @ + 1,
                          !.str = Append(@, [size |-> size, bytes |-> bytes]),
                          !.liveS = @ \cup {Len(h.str) + 1},
                          !.ovf = @ + (IF Len(bytes) + 1 > size THEN 1 ELSE 0)],
          p |-> Len(h.str) + 1]

\* cJSON_free of a character block; free(NULL) does nothing.
FreeStr(h, p) ==
    IF p = NULL THEN h
    ELSE IF p \notin h.liveS THEN [h EXCEPT !.bad = @ + 1]
    ELSE [h EXCEPT !.liveS = @ \ {p}, !.str[p] = FreedBlock]

\* cJSON_free of a node.
FreeNode(h, p) ==
    IF p = NULL THEN h
    ELSE IF p \notin h.liveN THEN [h EXCEPT !.bad = @ + 1]
    ELSE [h EXCEPT !.liveN = @ \ {p}, !.node[p] = BlankNode]

\* Bytes written over a block, with the zero that ends them.
Write(h, p, bytes) ==
    [h EXCEPT !.str[p].bytes = bytes,
              !.ovf = @ + (IF Len(bytes) + 1 > h.str[p].size THEN 1 ELSE 0)]

\* The text of a character block as a C string.
Text(h, p) == IF p = NULL THEN << >> ELSE CStr(h.str[p].bytes)

\* What reading through this pointer costs: a fault when it is null.
Deref(h, p) == IF p = NULL THEN [h EXCEPT !.fault = @ + 1] ELSE h

\* cJSON_strdup
cJSON_strdup(h, bytes) == AllocStr(h, Len(CStr(bytes)) + 1, CStr(bytes))

Note(h, i) == [h EXCEPT !.hi = Max(@, i)]

\* if (!(item->type & cJSON_IsReference) && (item->valuestring != NULL))
\*     cJSON_free(item->valuestring);
\* if (!(item->type & cJSON_StringIsConst) && (item->string != NULL))
\*     cJSON_free(item->string);
DeleteStrings(h, item) ==
    LET it == h.node[item]
        h1 == IF ~HasFlag(it.type, cJSON_IsReference) /\ it.valuestring # NULL
              THEN FreeStr(h, it.valuestring) ELSE h
    IN  IF ~HasFlag(it.type, cJSON_StringIsConst) /\ it.string # NULL
        THEN FreeStr(h1, it.string) ELSE h1

\* cJSON_Delete: the heap after it.  A node that is not live is read as
\* the stale struct the heap still shows, and freeing it is counted.
RECURSIVE cJSON_Delete(_, _)
cJSON_Delete(h, item) ==
    IF item = NULL THEN h
    ELSE LET it == h.node[item]
             next == it.next
             h1 == IF ~HasFlag(it.type, cJSON_IsReference) /\ it.child # NULL
                   THEN cJSON_Delete(h, it.child) ELSE h
             h2 == DeleteStrings(h1, item)
             h3 == FreeNode(h2, item)
         IN  cJSON_Delete(h3, next)

(***************************************************************************)
(* The parser.  The text to parse lies in memory as mem: its bytes, the    *)
(* zero that ends it, and then whatever the allocator left behind it, up   *)
(* to the end of the mapping.  A pointer into it is an index from 1, NULL  *)
(* is 0.  Reading beyond mem is undefined: the model notes the index read  *)
(* (heap field hi), reads a zero, and the call as a whole counts as        *)
(* having faulted when hi ends beyond mem.  Every operator returns the     *)
(* heap after it and the pointer p the function returns.                   *)
(***************************************************************************)

Rd(mem, p) == IF p >= 1 /\ p <= Len(mem) THEN mem[p] ELSE 0

\* return NULL, where a production gives up.
Fail(h) == [h |-> [h EXCEPT !.failed = TRUE], p |-> NULL]

\* while (in && *in && (*in <= 32)) in++;
RECURSIVE SkipTo(_, _)
SkipTo(mem, in) ==
    IF Rd(mem, in) # 0 /\ Rd(mem, in) <= 32 THEN SkipTo(mem, in + 1) ELSE in

\* [h, p] of a function that returns the pointer p.
Returns(h, p) == [h |-> h, p |-> p]

skip_whitespace(h, mem, in) ==
    IF in = NULL THEN Returns(h, NULL)
    ELSE Returns(Note(h, SkipTo(mem, in)), SkipTo(mem, in))

\* while (*end_ptr != '\"' && *end_ptr) { if (*end_ptr++ == '\\') end_ptr++; }
RECURSIVE ScanEnd(_, _)
ScanEnd(mem, end_ptr) ==
    IF Rd(mem, end_ptr) # 34 /\ Rd(mem, end_ptr) # 0
    THEN ScanEnd(mem, IF Rd(mem, end_ptr) = 92 THEN end_ptr + 2 ELSE end_ptr + 1)
    ELSE end_ptr

\* The bytes the copying loop of parse_string writes to out.
RECURSIVE Unescape(_, _, _)
Unescape(mem, ptr, end_ptr) ==
    IF ptr >= end_ptr THEN << >>
    ELSE IF Rd(mem, ptr) # 92
    THEN << Rd(mem, ptr) >> \o Unescape(mem, ptr + 1, end_ptr)
    ELSE IF Rd(mem, ptr + 1) = 117 THEN Unescape(mem, ptr + 6, end_ptr)
    ELSE << CASE Rd(mem, ptr + 1) = 98 -> 8 [] Rd(mem, ptr + 1) = 102 -> 12
              [] Rd(mem, ptr + 1) = 110 -> 10 [] Rd(mem, ptr + 1) = 114 -> 13
              [] Rd(mem, ptr + 1) = 116 -> 9 [] OTHER -> Rd(mem, ptr + 1) >>
         \o Unescape(mem, ptr + 2, end_ptr)

\* parse_string once out, block a, is allocated: the copy is in it, and
\* the function returns end_ptr + 1.
StringCopied(a, item, end_ptr) ==
    IF a.p = NULL THEN Fail(a.h)
    ELSE Returns([a.h EXCEPT !.node[item].valuestring = a.p,
                             !.node[item].type = cJSON_String],
                 end_ptr + 1)

\* parse_string once the scanning loop has stopped at end_ptr: len is
\* end_ptr - (str + 1), and out has len + 1 bytes.
StringScanned(h, mem, item, str, end_ptr) ==
    StringCopied(AllocStr(Note(h, end_ptr), (end_ptr - (str + 1)) + 1,
                          Unescape(mem, str + 1, end_ptr)),
                 item, end_ptr)

parse_string(h, mem, item, str) ==
    IF Rd(mem, str) # 34 THEN Fail(Note(h, str))
    ELSE StringScanned(h, mem, item, str, ScanEnd(mem, str + 1))

\* The end of a run of digits, and the number a run adds to n.
RECURSIVE DigitsEnd(_, _)
DigitsEnd(mem, p) == IF IsDigit(Rd(mem, p)) THEN DigitsEnd(mem, p + 1) ELSE p

\* The sign is applied to each digit as it is added, which gives sign * n
\* without forming -INT_MIN on the way to INT_MIN.
RECURSIVE Accum(_, _, _, _, _)
Accum(sign, mem, n, p, q) ==
    IF p >= q THEN n
    ELSE Accum(sign, mem, (n * 10) + (sign * (Rd(mem, p) - 48)), p + 1, q)

\* parse_number is a run of steps along num; each operator below is the
\* function from one step on, given the sign, sign * n for the digits read,
\* their scale, and top, the highest index examined so far.

\* n = sign * n * pow(10.0, scale + subscale * signsubscale); and the stores.
NumberStored(h, item, d, top, num) ==
    Returns([Note(h, top) EXCEPT !.node[item].valuedouble = d,
                                 !.node[item].valueint = IntOf(d),
                                 !.node[item].type = cJSON_Number],
            num)

\* The digits of the exponent, from num to end.
NumberExponent(h, mem, item, sign, n, scale, signsubscale, num, end) ==
    NumberStored(h, item,
                 Norm(n, scale + (signsubscale * Accum(1, mem, 0, num, end))),
                 end, end)

\* After 'e' or 'E' at num - 1: the sign of the exponent.
NumberExponentSign(h, mem, item, sign, n, scale, num) ==
    IF Rd(mem, num) = 43
    THEN NumberExponent(h, mem, item, sign, n, scale, 1, num + 1,
                        DigitsEnd(mem, num + 1))
    ELSE IF Rd(mem, num) = 45
    THEN NumberExponent(h, mem, item, sign, n, scale, 0 - 1, num + 1,
                        DigitsEnd(mem, num + 1))
    ELSE NumberExponent(h, mem, item, sign, n, scale, 1, num,
                        DigitsEnd(mem, num))

\* After the fraction: if (*num == 'e' || *num == 'E')
NumberAfterFraction(h, mem, item, sign, n, scale, num, top) ==
    IF Rd(mem, num) \in {101, 69}
    THEN NumberExponentSign(h, mem, item, sign, n, scale, num + 1)
    ELSE NumberStored(h, item, Norm(n, scale), Max(top, num), num)

\* The digits of the fraction, from num to end.
NumberFraction(h, mem, item, sign, n, num, end) ==
    NumberAfterFraction(h, mem, item, sign, Accum(sign, mem, n, num, end),
                        0 - (end - num), end, end)

\* After the integer part: if (*num == '.' && num[1] >= '0' && num[1] <= '9')
NumberAfterInteger(h, mem, item, sign, n, num) ==
    IF Rd(mem, num) # 46
    THEN NumberAfterFraction(h, mem, item, sign, n, 0, num, num)
    ELSE IF IsDigit(Rd(mem, num + 1))
    THEN NumberFraction(h, mem, item, sign, n, num + 1,
                        DigitsEnd(mem, num + 2))
    ELSE NumberAfterFraction(h, mem, item, sign, n, 0, num, num + 1)

\* After a leading zero: if (*num >= '1' && *num <= '9') do ... while
NumberAfterZero(h, mem, item, sign, num) ==
    IF Rd(mem, num) >= 49 /\ Rd(mem, num) <= 57
    THEN NumberAfterInteger(h, mem, item, sign,
                            Accum(sign, mem, 0, num, DigitsEnd(mem, num + 1)),
                            DigitsEnd(mem, num + 1))
    ELSE NumberAfterInteger(h, mem, item, sign, 0, num)

\* After the sign: if (*num == '0') num++;
NumberAfterSign(h, mem, item, sign, num) ==
    NumberAfterZero(h, mem, item, sign,
                    IF Rd(mem, num) = 48 THEN num + 1 ELSE num)

parse_number(h, mem, item, num) ==
    IF Rd(mem, num) = 45 THEN NumberAfterSign(h, mem, item, 0 - 1, num + 1)
    ELSE NumberAfterSign(h, mem, item, 1, num)

\* strncmp(value, lit, strlen(lit)): whether it is 0, and the last index
\* it had to examine.
RECURSIVE Mismatch(_, _, _, _)
Mismatch(mem, value, lit, i) ==
    IF i > Len(lit) \/ Rd(mem, value + i - 1) # lit[i] THEN i
    ELSE Mismatch(mem, value, lit, i + 1)

strncmp(mem, value, lit) ==
    [eq |-> Mismatch(mem, value, lit, 1) > Len(lit),
     last |-> value + Min(Mismatch(mem, value, lit, 1), Len(lit)) - 1]

\* skip_whitespace(production(...)): what every member is followed by.
After(r, mem) == skip_whitespace(r.h, mem, r.p)

\* A new node linked behind child: child->next = new_item; new_item->prev
\* = child; at is where in the input its member begins.
Linked(h, child, new_item, at) ==
    [h EXCEPT !.node[child].next = new_item, !.node[new_item].prev = child,
              !.node[new_item].src = at]

\* item->child = child; the first member, which begins at at.
FirstChild(h, item, child, at) ==
    [h EXCEPT !.node[item].child = child, !.node[child].src = at]

\* A plausible slip: the key stays in valuestring as well.
Promote_KeepsValue(h, child) ==
    [h EXCEPT !.node[child].string = h.node[child].valuestring]

\* child->string = child->valuestring; child->valuestring = NULL;
Promote(h, child) ==
    [h EXCEPT !.node[child].string = h.node[child].valuestring,
              !.node[child].valuestring = NULL]

RECURSIVE parse_value(_, _, _, _)
RECURSIVE array_rest(_, _, _, _)
RECURSIVE object_rest(_, _, _, _)

\* if (!value) return NULL; after a member v parsed into child, and then
\* the loop over the members that follow it.
ArrayMember(v, mem, child) ==
    IF v.p = NULL THEN v ELSE array_rest(v.h, mem, child, v.p)

\* The body of the while loop of parse_array once new_item is there: s
\* is skip_whitespace(value + 1), where the member begins.
ArrayNextFrom(s, mem, child, new_item) ==
    ArrayMember(After(parse_value(Linked(s.h, child, new_item, s.p),
                                  mem, new_item, s.p), mem),
                mem, new_item)

\* The body of the while loop of parse_array: a is what cJSON_New_Item
\* returned.
ArrayNext(a, mem, child, value) ==
    IF a.p = NULL THEN Fail(a.h)
    ELSE ArrayNextFrom(skip_whitespace(a.h, mem, value + 1), mem, child, a.p)

\* parse_array, from the first member on: the while loop and what follows.
array_rest(h, mem, child, value) ==
    IF Rd(mem, value) = 44
    THEN ArrayNext(cJSON_New_Item(h), mem, child, value)
    ELSE IF Rd(mem, value) = 93 THEN Returns(h, value + 1)
    ELSE Fail(h)

\* item->child = child = cJSON_New_Item(); and the first member.
ArrayFirst(a, mem, item, at) ==
    IF a.p = NULL THEN Fail(a.h)
    ELSE ArrayMember(After(parse_value(FirstChild(a.h, item, a.p, at),
                                       mem, a.p, at), mem),
                     mem, a.p)

\* After '[' and the whitespace behind it, which ends at s.p.
ArrayOpened(s, mem, item) ==
    IF Rd(mem, s.p) = 93 THEN Returns(s.h, s.p + 1)
    ELSE ArrayFirst(cJSON_New_Item(s.h), mem, item, s.p)

parse_array(h, mem, item, value) ==
    IF Rd(mem, value) # 91 THEN Fail(Note(h, value))
    ELSE ArrayOpened(skip_whitespace([Note(h, value) EXCEPT
                                         !.node[item].type = cJSON_Array],
                                     mem, value + 1),
                     mem, item)

\* value = skip_whitespace(parse_value(child, skip_whitespace(value + 1)));
\* s is the inner skip_whitespace.
MemberValue(s, mem, child) == After(parse_value(s.h, mem, child, s.p), mem)

\* After the key k of a member: the promotion to child->string, the colon.
MemberKey(k, mem, child) ==
    IF k.p = NULL THEN k
    ELSE IF Rd(mem, k.p) # 58 THEN Fail(Promote(k.h, child))
    ELSE MemberValue(skip_whitespace(Promote(k.h, child), mem, k.p + 1),
                     mem, child)

\* One member of an object into child: the key, the colon and the value.
object_member(h, mem, child, value) ==
    MemberKey(After(parse_string(h, mem, child, value), mem), mem, child)

\* if (!value) return NULL; after a member v parsed into child, and then
\* the loop over the members that follow it.
ObjectMember(v, mem, child) ==
    IF v.p = NULL THEN v ELSE object_rest(v.h, mem, child, v.p)

\* The body of the while loop of parse_object once new_item is there: s
\* is skip_whitespace(value + 1), where the member begins.
ObjectNextFrom(s, mem, child, new_item) ==
    ObjectMember(object_member(Linked(s.h, child, new_item, s.p),
                               mem, new_item, s.p),
                 mem, new_item)

\* The body of the while loop of parse_object: a is what cJSON_New_Item
\* returned.
ObjectNext(a, mem, child, value) ==
    IF a.p = NULL THEN Fail(a.h)
    ELSE ObjectNextFrom(skip_whitespace(a.h, mem, value + 1), mem, child, a.p)

\* parse_object, after the first member: the while loop and what follows.
object_rest(h, mem, child, value) ==
    IF Rd(mem, value) = 44
    THEN ObjectNext(cJSON_New_Item(h), mem, child, value)
    ELSE IF Rd(mem, value) = 125 THEN Returns(h, value + 1)
    ELSE Fail(h)

\* item->child = child = cJSON_New_Item(); and the first member.
ObjectFirst(a, mem, item, at) ==
    IF a.p = NULL THEN Fail(a.h)
    ELSE ObjectMember(object_member(FirstChild(a.h, item, a.p, at),
                                    mem, a.p, at),
                      mem, a.p)

\* A plausible slip: the test for the closing brace ahead of the first
\* member is left out.
ObjectOpened_NeedsMember(s, mem, item) ==
    ObjectFirst(cJSON_New_Item(s.h), mem, item, s.p)

\* After '{' and the whitespace behind it, which ends at s.p.
ObjectOpened(s, mem, item) ==
    IF Rd(mem, s.p) = 125 THEN Returns(s.h, s.p + 1)
    ELSE ObjectFirst(cJSON_New_Item(s.h), mem, item, s.p)

parse_object(h, mem, item, value) ==
    IF Rd(mem, value) # 123 THEN Fail(Note(h, value))
    ELSE ObjectOpened(skip_whitespace([Note(h, value) EXCEPT
                                          !.node[item].type = cJSON_Object],
                                      mem, value + 1),
                      mem, item)

\* parse_value where value is none of the three literals: by its first
\* byte.
ValueByFirst(h, mem, item, value) ==
    IF Rd(mem, value) = 34 THEN parse_string(h, mem, item, value)
    ELSE IF Rd(mem, value) = 45 \/ IsDigit(Rd(mem, value))
    THEN parse_number(h, mem, item, value)
    ELSE IF Rd(mem, value) = 91 THEN parse_array(h, mem, item, value)
    ELSE IF Rd(mem, value) = 123 THEN parse_object(h, mem, item, value)
    ELSE Fail(h)

\* parse_value given what the three strncmp found.
ValueCompared(h, mem, item, value, isNull, isFalse, isTrue) ==
    IF isNull.eq
    THEN Returns([Note(h, isNull.last) EXCEPT !.node[item].type = cJSON_NULL],
                 value + 4)
    ELSE IF isFalse.eq
    THEN Returns([Note(h, isFalse.last) EXCEPT
                     !.node[item].type = cJSON_False],
                 value + 5)
    ELSE IF isTrue.eq
    THEN Returns([Note(h, isTrue.last) EXCEPT
                     !.node[item].type = cJSON_True,
                     !.node[item].valueint = 1],
                 value + 4)
    ELSE ValueByFirst(Note(h, Max(isNull.last,
                                  Max(isFalse.last, isTrue.last))),
                      mem, item, value)

parse_value(h, mem, item, value) ==
    IF value = NULL THEN Returns(h, NULL)
    ELSE ValueCompared(h, mem, item, value,
                       strncmp(mem, value, Str(<< "n", "u", "l", "l" >>)),
                       strncmp(mem, value, Str(<< "f", "a", "l", "s", "e" >>)),
                       strncmp(mem, value, Str(<< "t", "r", "u", "e" >>)))

\* A plausible slip: on failure only the root is released.
ParseCleanup_RootOnly(h, c) == FreeNode(h, c)

\* cJSON_Delete(c); on the failure path of cJSON_Parse
ParseCleanup(h, c) == cJSON_Delete(h, c)

\* if (!parse_value(c, skip_whitespace(value))) { cJSON_Delete(c); return
\* NULL; } return c;  r is what parse_value returned.
ParseEnded(r, c) ==
    IF r.p = NULL
    THEN [h |-> ParseCleanup(r.h, c), c |-> NULL, end |-> NULL]
    ELSE [h |-> r.h, c |-> c, end |-> r.p]

\* A plausible slip: the entry point wants the text to end where the value
\* ends.
EndChecked(r, mem) ==
    IF r.p # NULL /\ Rd(mem, r.p) # 0 THEN Fail(r.h) ELSE r

ParseFrom_Strict(s, mem, c) ==
    ParseEnded(EndChecked(parse_value(s.h, mem, c, s.p), mem), c)

ParseFrom(s, mem, c) == ParseEnded(parse_value(s.h, mem, c, s.p), c)

\* cJSON *c = cJSON_New_Item(); if (!c) return NULL;
ParseRoot(a, mem) ==
    IF a.p = NULL
    THEN [h |-> [a.h EXCEPT !.failed = TRUE], c |-> NULL, end |-> NULL]
    ELSE ParseFrom(skip_whitespace(a.h, mem, 1), mem, a.p)

\* cJSON_Parse: the heap after it, the tree c it returns and, history, the
\* pointer end its value ended at.
cJSON_Parse(h, mem) == ParseRoot(cJSON_New_Item(h), mem)

\* while (c && strcmp(c->string, string)) c = c->next;  from child c on:
\* the node found, and whether a null key was handed to strcmp.
RECURSIVE FindItem(_, _, _)
FindItem(h, c, string) ==
    IF c = NULL THEN [h |-> h, c |-> NULL]
    ELSE IF h.node[c].string = NULL THEN [h |-> Deref(h, NULL), c |-> NULL]
    ELSE IF Text(h, h.node[c].string) = CStr(string) THEN [h |-> h, c |-> c]
    ELSE FindItem(h, h.node[c].next, string)

\* A plausible slip: the search goes on to the last match.
RECURSIVE FindLast(_, _, _, _)
FindLast(h, c, string, found) ==
    IF c = NULL THEN [h |-> h, c |-> found]
    ELSE FindLast(h, h.node[c].next, string,
                  IF h.node[c].string # NULL
                     /\ Text(h, h.node[c].string) = CStr(string)
                  THEN c ELSE found)

GetObjectItem_Last(h, object, string) ==
    FindLast(h, IF object # NULL THEN h.node[object].child ELSE NULL,
             string, NULL)

cJSON_GetObjectItem(h, object, string) ==
    FindItem(h, IF object # NULL THEN h.node[object].child ELSE NULL, string)

(***************************************************************************)
(* The serializer.  Every operator returns the heap after it and the       *)
(* block out the function returns, NULL when an allocation failed.         *)
(***************************************************************************)

\* [h, out] of a print function whose result is the block a allocated.
Printed(a) == [h |-> a.h, out |-> a.p]

print_number(h, item) ==
    Printed(AllocStr(h, 64, NumberText(h.node[item].valueint,
                                       h.node[item].valuedouble)))

\* print_string(str), str being the block of a key or of a string value.
print_string(h, str) ==
    Printed(AllocStr(Deref(h, str), Len(Text(h, str)) + 3,
                     << 34 >> \o Text(h, str) \o << 34 >>))

\* out = malloc(size); strcpy(out, lit);
print_literal(h, size, lit) == Printed(AllocStr(h, size, lit))

RECURSIVE print_value(_, _)
RECURSIVE ArrayCount(_, _, _)
RECURSIVE ArrayFill(_, _, _)
RECURSIVE ObjectCount(_, _, _)
RECURSIVE ObjectFill(_, _, _)

\* The body of the counting loop of print_array, r being what print_value
\* gave for the child before next.
ArrayCounted(r, next, len) ==
    IF r.out = NULL THEN [h |-> r.h, len |-> len, ok |-> FALSE]
    ELSE ArrayCount(FreeStr(r.h, r.out), next, len + Len(Text(r.h, r.out)) + 2)

\* The counting loop of print_array from child on: [h, len, ok].
ArrayCount(h, child, len) ==
    IF child = NULL THEN [h |-> h, len |-> len, ok |-> TRUE]
    ELSE ArrayCounted(print_value(h, child), h.node[child].next, len)

\* A plausible slip: the ',' is written after the last child too.
ArrayFilled_CommaAlways(r, next, bytes) ==
    IF r.out = NULL THEN [h |-> r.h, bytes |-> bytes, ok |-> FALSE]
    ELSE ArrayFill(FreeStr(r.h, r.out), next,
                   bytes \o Text(r.h, r.out) \o << 44 >>)

\* The body of the writing loop of print_array.
ArrayFilled(r, next, bytes) ==
    IF r.out = NULL THEN [h |-> r.h, bytes |-> bytes, ok |-> FALSE]
    ELSE ArrayFill(FreeStr(r.h, r.out), next,
                   bytes \o Text(r.h, r.out)
                         \o (IF next # NULL THEN << 44 >> ELSE << >>))

\* The writing loop of print_array from child on: [h, bytes, ok], bytes
\* being what has been written to out so far.
ArrayFill(h, child, bytes) ==
    IF child = NULL THEN [h |-> h, bytes |-> bytes, ok |-> TRUE]
    ELSE ArrayFilled(print_value(h, child), h.node[child].next, bytes)

\* size_t len = 5;
ArrayRoom == 5

\* After the writing loop f: the closing bracket, or the failure path.
ArrayWritten(f, out) ==
    IF ~f.ok THEN [h |-> FreeStr(f.h, out), out |-> NULL]
    ELSE [h |-> Write(f.h, out, f.bytes \o << 93 >>), out |-> out]

\* out = malloc(len); a is the block.
ArrayAllocated(a, child) ==
    IF a.p = NULL THEN [h |-> a.h, out |-> NULL]
    ELSE ArrayWritten(ArrayFill(a.h, child, << 91 >>), a.p)

\* After the counting loop c.
ArraySized(c, child) ==
    IF ~c.ok THEN [h |-> c.h, out |-> NULL]
    ELSE ArrayAllocated(AllocStr(c.h, c.len, << >>), child)

print_array(h, item) ==
    ArraySized(ArrayCount(h, h.node[item].child, ArrayRoom),
               h.node[item].child)

\* [h, str, ret] of one member: str is the printed key, r the printed
\* value.
Member(str, r) == [h |-> r.h, str |-> str, ret |-> r.out]

\* ret = print_value(child); after the key s.
ValueAfterKey(s, child) == Member(s.out, print_value(s.h, child))

\* str = print_string(child->string); ret = print_value(child);
KeyAndValue(h, child) ==
    ValueAfterKey(print_string(h, h.node[child].string), child)

\* if (str) free(str); if (ret) free(ret);
FreeBoth(kv) == FreeStr(FreeStr(kv.h, kv.str), kv.ret)

\* The body of the counting loop of print_object.
ObjectCounted(kv, next, len) ==
    IF kv.str = NULL \/ kv.ret = NULL
    THEN [h |-> FreeBoth(kv), len |-> len, ok |-> FALSE]
    ELSE ObjectCount(FreeBoth(kv), next,
                     len + Len(Text(kv.h, kv.str))
                         + Len(Text(kv.h, kv.ret)) + 3)

\* The counting loop of print_object from child on: [h, len, ok].
ObjectCount(h, child, len) ==
    IF child = NULL THEN [h |-> h, len |-> len, ok |-> TRUE]
    ELSE ObjectCounted(KeyAndValue(h, child), h.node[child].next, len)

\* The body of the writing loop of print_object.
ObjectFilled(kv, next, bytes) ==
    IF kv.str = NULL \/ kv.ret = NULL
    THEN [h |-> FreeBoth(kv), bytes |-> bytes, ok |-> FALSE]
    ELSE ObjectFill(FreeBoth(kv), next,
                    bytes \o Text(kv.h, kv.str) \o << 58 >>
                          \o Text(kv.h, kv.ret)
                          \o (IF next # NULL THEN << 44 >> ELSE << >>))

\* The writing loop of print_object from child on: [h, bytes, ok].
ObjectFill(h, child, bytes) ==
    IF child = NULL THEN [h |-> h, bytes |-> bytes, ok |-> TRUE]
    ELSE ObjectFilled(KeyAndValue(h, child), h.node[child].next, bytes)

\* size_t len = 7;
ObjectRoom == 7

\* After the writing loop f: the closing brace, or the failure path.
ObjectWritten(f, out) ==
    IF ~f.ok THEN [h |-> FreeStr(f.h, out), out |-> NULL]
    ELSE [h |-> Write(f.h, out, f.bytes \o << 125 >>), out |-> out]

\* out = malloc(len); a is the block.
ObjectAllocated(a, child) ==
    IF a.p = NULL THEN [h |-> a.h, out |-> NULL]
    ELSE ObjectWritten(ObjectFill(a.h, child, << 123 >>), a.p)

\* After the counting loop c.
ObjectSized(c, child) ==
    IF ~c.ok THEN [h |-> c.h, out |-> NULL]
    ELSE ObjectAllocated(AllocStr(c.h, c.len, << >>), child)

print_object(h, item) ==
    ObjectSized(ObjectCount(h, h.node[item].child, ObjectRoom),
                h.node[item].child)

\* switch (item->type & 0xFF)
PrintByType(h, item, type) ==
    CASE type = cJSON_NULL ->
             print_literal(h, 5, Str(<< "n", "u", "l", "l" >>))
      [] type = cJSON_False ->
             print_literal(h, 6, Str(<< "f", "a", "l", "s", "e" >>))
      [] type = cJSON_True ->
             print_literal(h, 5, Str(<< "t", "r", "u", "e" >>))
      [] type = cJSON_Number -> print_number(h, item)
      [] type = cJSON_String -> print_string(h, h.node[item].valuestring)
      [] type = cJSON_Array -> print_array(h, item)
      [] type = cJSON_Object -> print_object(h, item)
      [] OTHER -> [h |-> h, out |-> NULL]

print_value(h, item) ==
    IF item = NULL THEN [h |-> h, out |-> NULL]
    ELSE PrintByType(h, item, TypeOf(h.node[item].type))

cJSON_PrintUnformatted(h, item) == print_value(h, item)

(***************************************************************************)
(* The construction API.  Every operator returns the heap after it and     *)
(* what the function returns: the item p, or ok for cJSON_bool.  Names     *)
(* and strings are given as bytes and are never null here.                 *)
(***************************************************************************)

cJSON_CreateObject(h) ==
    LET a == cJSON_New_Item(h)
    IN  IF a.p = NULL THEN a
        ELSE [h |-> [a.h EXCEPT !.node[a.p].type = cJSON_Object], p |-> a.p]

cJSON_CreateArray(h) ==
    LET a == cJSON_New_Item(h)
    IN  IF a.p = NULL THEN a
        ELSE [h |-> [a.h EXCEPT !.node[a.p].type = cJSON_Array], p |-> a.p]

cJSON_CreateString(h, string) ==
    LET a == cJSON_New_Item(h)
    IN  IF a.p = NULL THEN a
        ELSE LET d == cJSON_strdup(
                          [a.h EXCEPT !.node[a.p].type = cJSON_String], string)
                 h1 == [d.h EXCEPT !.node[a.p].valuestring = d.p]
             IN  IF d.p = NULL THEN [h |-> cJSON_Delete(h1, a.p), p |-> NULL]
                 ELSE [h |-> h1, p |-> a.p]

cJSON_CreateNumber(h, num) ==
    LET a == cJSON_New_Item(h)
    IN  IF a.p = NULL THEN a
        ELSE [h |-> [a.h EXCEPT !.node[a.p].type = cJSON_Number,
                                !.node[a.p].valuedouble = num,
                                !.node[a.p].valueint = IntOf(num)],
              p |-> a.p]

cJSON_CreateBool(h, boolean) ==
    LET a == cJSON_New_Item(h)
    IN  IF a.p = NULL THEN a
        ELSE [h |-> [a.h EXCEPT !.node[a.p].type =
                                  IF boolean THEN cJSON_True ELSE cJSON_False],
              p |-> a.p]

suffix_object(h, prev, item) ==
    [h EXCEPT !.node[prev].next = item, !.node[item].prev = prev]

\* while (child->next) child = child->next;
RECURSIVE LastSibling(_, _)
LastSibling(h, child) ==
    IF h.node[child].next = NULL THEN child
    ELSE LastSibling(h, h.node[child].next)

\* A plausible slip: the new item is put in front of the others.
Attach_AtHead(h, object, item) ==
    IF h.node[object].child = NULL THEN [h EXCEPT !.node[object].child = item]
    ELSE [suffix_object(h, item, h.node[object].child)
            EXCEPT !.node[object].child = item]

\* The item made the last child of object.
Attach(h, object, item) ==
    IF h.node[object].child = NULL THEN [h EXCEPT !.node[object].child = item]
    ELSE suffix_object(h, LastSibling(h, h.node[object].child), item)

\* add_item_to_object with constant = 0, the only way the library calls it.
add_item_to_object(h, object, string, item) ==
    IF object = NULL \/ item = NULL \/ string = NoString
    THEN [h |-> h, ok |-> FALSE]
    ELSE LET d == cJSON_strdup(h, string)
             h1 == [d.h EXCEPT !.node[item].string = d.p]
         IN  IF d.p = NULL THEN [h |-> h1, ok |-> FALSE]
             ELSE [h |-> Attach(h1, object, item), ok |-> TRUE]

cJSON_AddItemToObject(h, object, string, item) ==
    add_item_to_object(h, object, string, item)

\* if (!cJSON_AddItemToObject(object, name, item))
\*     { cJSON_Delete(item); return NULL; }
\* return item;
AddCreated(c, object, name) ==
    LET a == cJSON_AddItemToObject(c.h, object, name, c.p)
    IN  IF ~a.ok THEN [h |-> cJSON_Delete(a.h, c.p), p |-> NULL]
        ELSE [h |-> a.h, p |-> c.p]

cJSON_AddStringToObject(h, object, name, string) ==
    AddCreated(cJSON_CreateString(h, string), object, name)

cJSON_AddNumberToObject(h, object, name, number) ==
    AddCreated(cJSON_CreateNumber(h, number), object, name)

cJSON_AddBoolToObject(h, object, name, boolean) ==
    AddCreated(cJSON_CreateBool(h, boolean), object, name)

(***************************************************************************)
(* Walking a document: child, child->next, ...                             *)
(***************************************************************************)

\* The sibling chain that starts at c.
RECURSIVE Chain(_, _)
Chain(h, c) == IF c = NULL THEN << >> ELSE << c >> \o Chain(h, h.node[c].next)

Children(h, item) == Chain(h, h.node[item].child)

\* The nodes of the document at c and of the siblings after it.
RECURSIVE Reach(_, _)
Reach(h, c) ==
    IF c = NULL THEN {}
    ELSE {c} \cup Reach(h, h.node[c].child) \cup Reach(h, h.node[c].next)

IsContainer(h, c) == TypeOf(h.node[c].type) \in {cJSON_Array, cJSON_Object}

Containers(h, c) == {x \in Reach(h, c) : IsContainer(h, x)}

(***************************************************************************)
(* The user of the library.  A text arrives (one of Docs, possibly damaged *)
(* in one place on the way) and is parsed, or a document is built with the *)
(* construction API; the document is looked into, printed, the printed     *)
(* text parsed back, and everything released.                              *)
(***************************************************************************)

\* The texts that arrive when nothing damages them:
\*   1  {"a":1,"b":2,"c":3}
\*   2  {"x":1,"x":2}
\*   3  [1,2,3]
\*   4  {"a":1}
\*   5  true
\*   6  {"a":[1,{"b":"x"}]}
\*   7  ["a\nb", -2.5e1 ]
Docs ==
    <<
      Str(<< "{", "\"", "a", "\"", ":", "1", ",", "\"", "b", "\"", ":", "2", ",", "\"", "c", "\"", ":", "3", "}" >>),
      Str(<< "{", "\"", "x", "\"", ":", "1", ",", "\"", "x", "\"", ":", "2", "}" >>),
      Str(<< "[", "1", ",", "2", ",", "3", "]" >>),
      Str(<< "{", "\"", "a", "\"", ":", "1", "}" >>),
      Str(<< "t", "r", "u", "e" >>),
      Str(<< "{", "\"", "a", "\"", ":", "[", "1", ",", "{", "\"", "b", "\"", ":", "\"", "x", "\"", "}", "]", "}" >>),
      Str(<< "[", "\"", "a", "\\", "n", "b", "\"", ",", " ", "-", "2", ".", "5", "e", "1", " ", "]" >>)
    >>

DocIds == 1..Len(Docs)

\* Where in each of Docs a member key and where a value begins.
KeyStarts == << {2, 8, 14}, {2, 8}, {}, {2}, {}, {2, 10}, {} >>

ValueStarts ==
    << {1, 6, 12, 18}, {1, 6, 12}, {1, 2, 4, 6}, {1, 6}, {1}, {1, 6, 7, 9, 14}, {1, 2, 10} >>

\* The bytes damage can put in the place of another.
EditBytes ==
    {Ch("x"), Ch("1"), Ch(","), Ch(":"), Ch("]"), Ch("}"), Ch("\""),
     Ch("\\"), Ch(" ")}

\* The names looked up and added, the strings and the numbers added.
Names == {Str(<< "a" >>), Str(<< "b" >>), Str(<< "x" >>)}

AddNames == {Str(<< "a" >>), Str(<< "b" >>)}

AddStrings == {Str(<< "s" >>), Str(<< "a", "\"" >>)}

AddNumbers == {[m |-> 3, e |-> 0], [m |-> 1234567, e |-> -6]}

\* How many nodes a document under construction may have.
MaxNodes == 3

\* Which call of malloc may fail, at most: the MaxFail-th.
MaxFail == 3

\* How many bytes of the mapping lie behind the terminator of a text, at
\* most, and what they may be.
MaxTail == 1

TailBytes == {0, Ch("]"), Ch("}"), Ch(":"), Ch("\""), Ch("1")}

RECURSIVE SeqsUpTo(_, _)
SeqsUpTo(S, n) ==
    IF n = 0 THEN {<< >>}
    ELSE SeqsUpTo(S, n - 1)
         \cup {Append(t, b) : t \in {u \in SeqsUpTo(S, n - 1) : Len(u) = n - 1},
                              b \in S}

Tails == SeqsUpTo(TailBytes, MaxTail)

\* The largest address in use, 0 when there is none.
Top(live) ==
    IF live = {} THEN 0 ELSE CHOOSE x \in live : \A y \in live : y <= x

\* The heap as a call of the library leaves it: its counters of the call
\* cleared, and the addresses above the last one in use free to be handed
\* out again.
Settled(h) ==
    [Entering(h, 0) EXCEPT !.node = SubSeq(h.node, 1, Top(h.liveN)),
                           !.str = SubSeq(h.str, 1, Top(h.liveS))]

\* What history keeps of a call: h0 the heap before, h1 after.
Result(kind, ret, arg, end, h0, h1) ==
    [kind |-> kind, ret |-> ret, arg |-> arg,
     oom |-> h1.failAt # 0 /\ h1.n >= h1.failAt,
     failed |-> h1.failed, hi |-> h1.hi, end |-> end,
     nodes0 |-> h0.liveN, strs0 |-> h0.liveS, bad0 |-> h0.bad]

\* What history keeps of a call of the construction API or of the
\* serializer that returned NULL.
OutOfMemory == [NoResult EXCEPT !.kind = "oom", !.oom = TRUE]

JsonInit == BufIdle /\ ConcIdle /\ JsonIdle /\ ShotIdle

\* A text arrives.
Receive(d) ==
    /\ jst = "idle"
    /\ input' = [NoInput EXCEPT !.doc = d, !.text = Docs[d], !.of = "wire"]
    /\ jst' = "recv"
    /\ UNCHANGED <<heap, tree, copy, sub, jres, calls>>

\* The text arrives damaged in one place, as text.
Damaged(kind, k, b, text) ==
    /\ input' = [input EXCEPT !.text = text,
                              !.edit = [kind |-> kind, at |-> k, byte |-> b]]
    /\ UNCHANGED <<heap, jst, tree, copy, sub, jres, calls>>

CanDamage == jst = "recv" /\ input.edit = NoEdit

\* Only the first k bytes arrive.
Truncate(k) ==
    /\ CanDamage
    /\ k < Len(input.text)
    /\ Damaged("truncate", k, 0, SubSeq(input.text, 1, k))

\* Byte k is lost.
DropByte(k) ==
    /\ CanDamage
    /\ k \in 1..Len(input.text)
    /\ Damaged("delete", k, 0,
               SubSeq(input.text, 1, k - 1)
               \o SubSeq(input.text, k + 1, Len(input.text)))

\* Byte k arrives as b.
ReplaceByte(k, b) ==
    /\ CanDamage
    /\ k \in 1..Len(input.text)
    /\ input.text[k] # b
    /\ Damaged("replace", k, b, [input.text EXCEPT ![k] = b])

\* What may lie behind the terminator of the text: it matters only when
\* the parser reads there, which it does or does not whatever lies there.
TailsFor(f) ==
    IF cJSON_Parse(Entering(heap, f), input.text \o << 0 >>).h.hi
           > Len(input.text) + 1
    THEN Tails ELSE {<< >>}

\* cJSON_Parse(text): of the text that arrived into tree, of the printed
\* text into copy.
Parse(f, tail) ==
    /\ jst \in {"recv", "printed"}
    /\ LET mem == input.text \o << 0 >> \o tail
           h0 == Entering(heap, f)
           r == cJSON_Parse(h0, mem)
           faulted == r.h.hi > Len(mem)
       IN  /\ input' = [input EXCEPT !.tail = tail]
           /\ jres' = Result("parse", r.c, << >>, r.end, h0, r.h)
           /\ IF faulted
              THEN jst' = "crashed" /\ UNCHANGED <<heap, tree, copy>>
              ELSE /\ heap' = Settled(r.h)
                   /\ IF jst = "recv"
                      THEN /\ tree' = r.c
                           /\ jst' = IF r.c = NULL THEN "failed" ELSE "parsed"
                           /\ copy' = copy
                      ELSE /\ copy' = r.c
                           /\ jst' = IF r.c = NULL THEN "refailed"
                                     ELSE "reparsed"
                           /\ tree' = tree
    /\ UNCHANGED <<sub, calls>>

\* cJSON_GetObjectItem(tree, name)
GetObjectItem(name) ==
    /\ jst = "parsed"
    /\ LET r == cJSON_GetObjectItem(heap, tree, name)
       IN  /\ heap' = r.h
           /\ jres' = Result("get", r.c, name, NULL, heap, r.h)
           /\ jst' = IF r.h.fault > heap.fault THEN "crashed" ELSE "looked"
    /\ UNCHANGED <<input, tree, copy, sub, calls>>

\* cJSON_PrintUnformatted(tree)
PrintUnformatted(f) ==
    /\ jst \in {"parsed", "built"}
    /\ LET h0 == Entering(heap, f)
           r == cJSON_PrintUnformatted(h0, tree)
       IN  /\ jres' = IF r.out = NULL THEN OutOfMemory
                      ELSE Result("print", r.out, << >>, NULL, h0, r.h)
           /\ heap' = Settled(r.h)
           /\ IF r.h.fault > heap.fault
              THEN jst' = "crashed" /\ input' = input
              ELSE IF r.out = NULL THEN UNCHANGED <<jst, input>>
              ELSE /\ jst' = "printed"
                   /\ input' = [NoInput EXCEPT
                                   !.text = Text(r.h, r.out),
                                   !.block = r.out,
                                   !.of = IF jst = "built" THEN "built"
                                          ELSE "parsed"]
    /\ UNCHANGED <<tree, copy, sub, calls>>

\* cJSON_Delete of what the user holds: the copy, then a container left
\* unattached, then the document.
Delete ==
    /\ jst \in {"parsed", "built", "looked", "printed", "reparsed",
                "refailed", "closing"}
    /\ tree # NULL
    /\ jst' = "closing"
    /\ jres' = Result("delete", NULL, << >>, NULL, heap, heap)
    /\ IF copy # NULL
       THEN heap' = Settled(cJSON_Delete(heap, copy)) /\ copy' = NULL
            /\ UNCHANGED <<sub, tree>>
       ELSE IF sub # NULL
       THEN heap' = Settled(cJSON_Delete(heap, sub)) /\ sub' = NULL
            /\ UNCHANGED <<copy, tree>>
       ELSE heap' = Settled(cJSON_Delete(heap, tree)) /\ tree' = NULL
            /\ UNCHANGED <<copy, sub>>
    /\ calls' = IF copy = NULL /\ sub = NULL THEN << >> ELSE calls
    /\ input' = input

\* cJSON_Delete(NULL), once everything the user held has been deleted.
DeleteNull ==
    /\ jst = "closing"
    /\ tree = NULL
    /\ jres.kind = "delete"
    /\ heap' = Settled(cJSON_Delete(heap, NULL))
    /\ jres' = Result("deletenull", NULL, << >>, NULL, heap,
                      cJSON_Delete(heap, NULL))
    /\ UNCHANGED <<input, jst, tree, copy, sub, calls>>

\* free(json_str), of the printed text
FreeText ==
    /\ jst = "closing"
    /\ tree = NULL
    /\ input.block # NULL
    /\ heap' = Settled(FreeStr(heap, input.block))
    /\ input' = NoInput
    /\ UNCHANGED <<jst, tree, copy, sub, jres, calls>>

\* Whether the user may create another node.
Room == Cardinality(heap.liveN) < MaxNodes

\* A container was created as r: the first becomes the document, a later
\* one is held until it is attached.
Created(r, h0) ==
    /\ heap' = Settled(r.h)
    /\ jres' = IF r.p = NULL THEN OutOfMemory
               ELSE Result("create", r.p, << >>, NULL, h0, r.h)
    /\ IF r.p = NULL THEN UNCHANGED <<jst, tree, sub>>
       ELSE IF jst = "idle"
       THEN tree' = r.p /\ jst' = "built" /\ sub' = sub
       ELSE sub' = r.p /\ UNCHANGED <<jst, tree>>
    /\ UNCHANGED <<input, copy, calls>>

CanCreate == jst = "idle" \/ (jst = "built" /\ sub = NULL /\ Room)

CreateObject(f) ==
    /\ CanCreate
    /\ Created(cJSON_CreateObject(Entering(heap, f)), Entering(heap, f))

CreateArray(f) ==
    /\ CanCreate
    /\ Created(cJSON_CreateArray(Entering(heap, f)), Entering(heap, f))

\* An item was added to object as r, or the call failed.
Added(object, r, h0) ==
    /\ heap' = Settled(r.h)
    /\ jres' = IF r.p = NULL THEN OutOfMemory
               ELSE Result("add", r.p, << >>, NULL, h0, r.h)
    /\ calls' = IF r.p = NULL THEN calls
                ELSE Append(calls, [object |-> object, item |-> r.p])
    /\ UNCHANGED <<input, jst, tree, copy>>

\* The objects of the document.
Objects(h, c) ==
    {x \in Reach(h, c) : TypeOf(h.node[x].type) = cJSON_Object}

\* The objects the user may add to.
Targets == IF jst = "built" THEN Objects(heap, tree) ELSE {}

\* The user adds members to the objects of the document.
CanAdd(object) == jst = "built" /\ object \in Targets

\* cJSON_AddItemToObject(object, name, sub)
AddItemToObject(object, name, f) ==
    /\ CanAdd(object)
    /\ sub # NULL
    /\ LET h0 == Entering(heap, f)
           r == cJSON_AddItemToObject(h0, object, name, sub)
       IN  /\ Added(object, [h |-> r.h, p |-> IF r.ok THEN sub ELSE NULL], h0)
           /\ sub' = IF r.ok THEN NULL ELSE sub

AddStringToObject(object, name, string, f) ==
    /\ CanAdd(object)
    /\ Room
    /\ Added(object,
             cJSON_AddStringToObject(Entering(heap, f), object, name, string),
             Entering(heap, f))
    /\ sub' = sub

AddNumberToObject(object, name, number, f) ==
    /\ CanAdd(object)
    /\ Room
    /\ Added(object,
             cJSON_AddNumberToObject(Entering(heap, f), object, name, number),
             Entering(heap, f))
    /\ sub' = sub

AddBoolToObject(object, name, boolean, f) ==
    /\ CanAdd(object)
    /\ Room
    /\ Added(object,
             cJSON_AddBoolToObject(Entering(heap, f), object, name, boolean),
             Entering(heap, f))
    /\ sub' = sub

FailPoints == 0..MaxFail

\* Allocation fails while a text that arrived is parsed, not while the
\* printed text is parsed back.
ParseFailPoints == IF jst = "recv" THEN FailPoints ELSE {0}

JsonNext ==
    /\ \/ \E d \in DocIds : Receive(d)
       \/ \E k \in 0..Len(input.text) : Truncate(k)
       \/ \E k \in 1..Len(input.text) : DropByte(k)
       \/ \E k \in 1..Len(input.text), b \in EditBytes : ReplaceByte(k, b)
       \/ \E f \in ParseFailPoints : \E tail \in TailsFor(f) : Parse(f, tail)
       \/ \E name \in Names : GetObjectItem(name)
       \/ \E f \in FailPoints : PrintUnformatted(f)
       \/ Delete
       \/ DeleteNull
       \/ FreeText
       \/ \E f \in FailPoints : CreateObject(f)
       \/ \E f \in FailPoints : CreateArray(f)
       \/ \E c \in Targets, name \in AddNames, f \in FailPoints :
              AddItemToObject(c, name, f)
       \/ \E c \in Targets, name \in AddNames, string \in AddStrings,
             f \in FailPoints : AddStringToObject(c, name, string, f)
       \/ \E c \in Targets, name \in AddNames, number \in AddNumbers,
             f \in FailPoints : AddNumberToObject(c, name, number, f)
       \/ \E c \in Targets, name \in AddNames, f \in FailPoints :
              AddBoolToObject(c, name, TRUE, f)
    /\ UNCHANGED <<bvars, cvars, svars>>

SpecJson == JsonInit /\ [][JsonNext]_vars

(***************************************************************************)
(* The construction API with any arguments.  A document of a few nodes is  *)
(* built, and then cJSON_AddItemToObject is called once with whatever the  *)
(* caller has at hand: any node of the document or none as the container,  *)
(* a name or none, and as the item the container held apart, a node that   *)
(* is in the document already, or none.                                    *)
(***************************************************************************)

\* The nodes the caller has a pointer to, and no node.
Held == heap.liveN \cup {NULL}

\* cJSON_AddItemToObject(object, string, item) returned r.
AddedAny(object, string, item, r) ==
    /\ heap' = Settled(r.h)
    /\ jres' = [Result("addany", item, string, object, heap, r.h)
                  EXCEPT !.failed = ~r.ok]
    /\ sub' = IF r.ok /\ item = sub THEN NULL ELSE sub
    /\ jst' = "added"
    /\ UNCHANGED <<input, tree, copy, calls>>

AddAnyItem(object, string, item) ==
    /\ jst = "built"
    /\ object \in Held
    /\ item \in Held
    /\ AddedAny(object, string, item,
                cJSON_AddItemToObject(Entering(heap, 0), object, string, item))

BuildNext ==
    /\ \/ CreateObject(0)
       \/ CreateArray(0)
       \/ \E c \in Targets, name \in AddNames, number \in AddNumbers :
              AddNumberToObject(c, name, number, 0)
       \/ \E object \in Held, string \in AddNames \cup {NoString},
             item \in Held : AddAnyItem(object, string, item)
    /\ UNCHANGED <<bvars, cvars, svars>>

SpecBuild == JsonInit /\ [][BuildNext]_vars

(***************************************************************************)
(* Short texts.  Every text of at most MaxLen bytes over TextBytes is      *)
(* given to cJSON_Parse, whole and cut to a proper prefix, and what was    *)
(* parsed is printed and parsed back.                                      *)
(***************************************************************************)

MaxLen == 3

TextBytes ==
    {Ch("\""), Ch("\\"), Ch("1"), Ch("["), Ch("]"), Ch("{"), Ch("}"),
     Ch(" "), Ch("."), Ch("e")}

Texts == SeqsUpTo(TextBytes, MaxLen)

TextInit ==
    /\ BufIdle
    /\ ConcIdle
    /\ ShotIdle
    /\ heap = EmptyHeap
    /\ input \in {[NoInput EXCEPT !.text = t, !.of = "text"] : t \in Texts}
    /\ jst = "recv"
    /\ tree = NULL
    /\ copy = NULL
    /\ sub = NULL
    /\ jres = NoResult
    /\ calls = << >>

\* The first k bytes of the text were parsed, from a buffer of their own,
\* as r.
PrefixParsed(k, r, h0) ==
    /\ input' = [input EXCEPT !.edit = [kind |-> "prefix", at |-> k,
                                        byte |-> 0]]
    /\ jres' = Result("prefix", r.c, << >>, r.end, h0, r.h)
    /\ IF r.h.hi > k + 1
       THEN jst' = "crashed" /\ UNCHANGED <<heap, copy>>
       ELSE jst' = "prefixed" /\ heap' = Settled(r.h) /\ copy' = r.c
    /\ UNCHANGED <<tree, sub, calls>>

\* cJSON_Parse of the first k bytes of the text, after the text itself.
ParsePrefix(k) ==
    /\ jst \in {"parsed", "failed", "crashed"}
    /\ input.of = "text"
    /\ jres.kind = "parse"
    /\ k \in 0..Len(input.text) - 1
    /\ PrefixParsed(k, cJSON_Parse(Entering(heap, 0),
                                   SubSeq(input.text, 1, k) \o << 0 >>),
                    Entering(heap, 0))

TextNext ==
    /\ \/ \E tail \in TailsFor(0) : Parse(0, tail)
       \/ \E k \in 0..MaxLen : ParsePrefix(k)
       \/ PrintUnformatted(0)
    /\ UNCHANGED <<bvars, cvars, svars>>

SpecText == TextInit /\ [][TextNext]_vars

(***************************************************************************)
(* Properties of the bundled cJSON.                                        *)
(***************************************************************************)

(***************************************************************************)
(* Numbers through the serializer and back: a Number is created with       *)
(* cJSON_CreateNumber, printed, and the text parsed again.  The values     *)
(* are the decimals of a small mantissa and exponent, the ends of the      *)
(* range of int and their neighbours outside it, and values about          *)
(* DBL_EPSILON in size.                                                    *)
(***************************************************************************)

MaxMant == 12

MaxExp == 2

NumValues ==
    {Norm(m, e) : m \in (0 - MaxMant)..MaxMant, e \in (0 - MaxExp)..MaxExp}
    \cup {[m |-> INT_MAX, e |-> 0], [m |-> INT_MIN, e |-> 0],
          [m |-> 214748365, e |-> 1], [m |-> 0 - 214748365, e |-> 1],
          [m |-> 1234567, e |-> 0], [m |-> 1234567, e |-> 0 - 6],
          [m |-> 1, e |-> 0 - 17], [m |-> 0 - 1, e |-> 0 - 17],
          [m |-> 2, e |-> 0 - 16], [m |-> 3, e |-> 0 - 16]}

\* cJSON_CreateNumber(num), the whole document
CreateNumber(num) ==
    /\ jst = "idle"
    /\ Created(cJSON_CreateNumber(Entering(heap, 0), num), Entering(heap, 0))

NumNext ==
    /\ \/ \E num \in NumValues : CreateNumber(num)
       \/ PrintUnformatted(0)
       \/ \E tail \in TailsFor(0) : Parse(0, tail)
       \/ Delete
       \/ FreeText
    /\ UNCHANGED <<bvars, cvars, svars>>

SpecNum == JsonInit /\ [][NumNext]_vars

(***************************************************************************)
(*                        6.  pxshot_screenshot                            *)
(*                                                                         *)
(* One call, in steps: the body is created, each line that the options     *)
(* ask for is added, the body is serialized and posted, and the response   *)
(* is filled from what the transport received.  Every allocation may       *)
(* fail.  The body lives in tree and its nodes in heap.                    *)
(***************************************************************************)

PXSHOT_ERR_INVALID_ARG == 1

PXSHOT_ERR_OUT_OF_MEMORY == 2

PXSHOT_ERR_CURL_PERFORM == 4

PXSHOT_ERR_HTTP_ERROR == 5

PXSHOT_ERR_JSON_PARSE == 6

PXSHOT_ERR_TIMEOUT == 8

PXSHOT_FORMAT_JPEG == 1

PXSHOT_FORMAT_WEBP == 2

PXSHOT_WAIT_LOAD == 0

PXSHOT_WAIT_DOMCONTENTLOADED == 1

PXSHOT_WAIT_NETWORKIDLE == 2

pxshot_format_string(fmt) ==
    IF fmt = PXSHOT_FORMAT_JPEG THEN Str(<< "j", "p", "e", "g" >>)
    ELSE IF fmt = PXSHOT_FORMAT_WEBP THEN Str(<< "w", "e", "b", "p" >>)
    ELSE Str(<< "p", "n", "g" >>)

pxshot_wait_until_string(w) ==
    IF w = PXSHOT_WAIT_DOMCONTENTLOADED
    THEN Str(<< "d", "o", "m", "c", "o", "n", "t", "e", "n", "t",
                "l", "o", "a", "d", "e", "d" >>)
    ELSE IF w = PXSHOT_WAIT_NETWORKIDLE
    THEN Str(<< "n", "e", "t", "w", "o", "r", "k", "i", "d", "l", "e" >>)
    ELSE Str(<< "l", "o", "a", "d" >>)

\* The names of the lines of the body, in the order pxshot_screenshot adds
\* them.
FieldNames ==
    << Str(<< "u", "r", "l" >>),
       Str(<< "f", "o", "r", "m", "a", "t" >>),
       Str(<< "q", "u", "a", "l", "i", "t", "y" >>),
       Str(<< "w", "i", "d", "t", "h" >>),
       Str(<< "h", "e", "i", "g", "h", "t" >>),
       Str(<< "f", "u", "l", "l", "_", "p", "a", "g", "e" >>),
       Str(<< "w", "a", "i", "t", "_", "u", "n", "t", "i", "l" >>),
       Str(<< "w", "a", "i", "t", "_", "f", "o", "r", "_",
              "s", "e", "l", "e", "c", "t", "o", "r" >>),
       Str(<< "w", "a", "i", "t", "_", "f", "o", "r", "_",
              "t", "i", "m", "e", "o", "u", "t" >>),
       Str(<< "d", "e", "v", "i", "c", "e", "_", "s", "c", "a", "l", "e", "_",
              "f", "a", "c", "t", "o", "r" >>),
       Str(<< "s", "t", "o", "r", "e" >>) >>

\* The condition under which line i is added.
Supplied(o, i) ==
    CASE i = 1 -> TRUE
      [] i = 2 -> TRUE
      [] i = 3 -> o.quality > 0
      [] i = 4 -> o.width > 0
      [] i = 5 -> o.height > 0
      [] i = 6 -> o.full_page
      [] i = 7 -> o.wait_until # PXSHOT_WAIT_LOAD
      [] i = 8 -> o.wait_for_selector # NoString
      [] i = 9 -> o.wait_for_timeout > 0
      [] i = 10 -> o.device_scale_factor > 0
      [] i = 11 -> o.store

\* The call that adds line i: [h, p], p = NULL when it failed.
AddField(h, body, o, i) ==
    CASE i = 1 -> cJSON_AddStringToObject(h, body, FieldNames[1], o.url)
      [] i = 2 -> cJSON_AddStringToObject(h, body, FieldNames[2],
                                          pxshot_format_string(o.format))
      [] i = 3 -> cJSON_AddNumberToObject(h, body, FieldNames[3],
                                          Norm(o.quality, 0))
      [] i = 4 -> cJSON_AddNumberToObject(h, body, FieldNames[4],
                                          Norm(o.width, 0))
      [] i = 5 -> cJSON_AddNumberToObject(h, body, FieldNames[5],
                                          Norm(o.height, 0))
      [] i = 6 -> cJSON_AddBoolToObject(h, body, FieldNames[6], TRUE)
      [] i = 7 -> cJSON_AddStringToObject(h, body, FieldNames[7],
                                  pxshot_wait_until_string(o.wait_until))
      [] i = 8 -> cJSON_AddStringToObject(h, body, FieldNames[8],
                                          o.wait_for_selector)
      [] i = 9 -> cJSON_AddNumberToObject(h, body, FieldNames[9],
                                          Norm(o.wait_for_timeout, 0))
      [] i = 10 -> cJSON_AddNumberToObject(h, body, FieldNames[10],
                                           Norm(o.device_scale_factor, 0))
      [] i = 11 -> cJSON_AddBoolToObject(h, body, FieldNames[11], TRUE)

\* The first line from i on that the options ask for; one past the last
\* line when there is none.
RECURSIVE NextField(_, _)
NextField(o, i) ==
    IF i > Len(FieldNames) \/ Supplied(o, i) THEN i ELSE NextField(o, i + 1)

\* The viewport widths the caller asks for; 0 leaves the line out.
MaxWidth == 3

\* The options of the calls: with or without a URL, a width, storing,
\* blocking advertisements.
ShotOpts ==
    {[NoOpts EXCEPT !.url = u, !.width = w, !.store = s, !.block_ads = b] :
         u \in {NoString, Str(<< "u" >>)}, w \in {0, MaxWidth},
         s \in BOOLEAN, b \in BOOLEAN}

\* What the transport may have received: nothing, a stored-image document,
\* an error document, an array, bytes that are no JSON.
ShotBodies ==
    {NoString,
     Str(<< "{", "\"", "u", "r", "l", "\"", ":", "\"", "u", "\"", ",",
            "\"", "w", "i", "d", "t", "h", "\"", ":", "3", "}" >>),
     Str(<< "{", "\"", "e", "r", "r", "o", "r", "\"", ":",
            "\"", "e", "\"", "}" >>),
     Str(<< "[", "1", "]" >>),
     Str(<< "x" >>)}

HttpCodes == {200, 399, 400}

\* Which of the two pointers a call is given: both, no client, or no
\* second argument (opts, usage).
Givens == {"all", "no client", "no argument"}

\* What curl_easy_perform may return.
CurlCodes == {"CURLE_OK", "CURLE_OPERATION_TIMEDOUT", "CURLE_COULDNT_CONNECT"}

\* The blocks of the C heap that a request allocates for its response and
\* for the bytes received.  Each is allocated at one place of the source
\* and at most once in a call, and is named after the place: "resp"
\* (pxshot_response_new), "set_error" (the strdup of pxshot_set_error),
\* "error" (the strdup of the "error" member), "buffer" (the realloc of
\* pxshot_write_callback), "stored", "stored.url", "stored.expires_at".
\* m is [live, bad, stale]: the blocks allocated, the calls of free with a
\* block that is not, and whether a block was read after it was freed.
BlockAlloc(m, b) == [m EXCEPT !.live = @ \cup {b}]

\* free(b); free(NULL) does nothing.
BlockFree(m, b) ==
    IF b = "NULL" THEN m
    ELSE IF b \in m.live THEN [m EXCEPT !.live = @ \ {b}]
    ELSE [m EXCEPT !.bad = @ + 1]

\* The bytes of b are read.
BlockRead(m, b) ==
    IF b = "NULL" \/ b \in m.live THEN m ELSE [m EXCEPT !.stale = TRUE]

\* buffer.data, given what the transport received.
BufferAt(body) == IF body = NoString THEN "NULL" ELSE "buffer"

\* The transfer has put body into the buffer.
BufferFilled(m, body) ==
    IF body = NoString THEN m ELSE BlockAlloc(m, "buffer")

\* free(buffer.data) left out: the storage stays allocated.
BufferFreed_Leaks(m, body) == m

\* free(buffer.data);
BufferFreed(m, body) == BlockFree(m, BufferAt(body))

\* cJSON_Parse((char *)buffer.data) reads the buffer.
BufferParsed(m, body) == BlockRead(m, BufferAt(body))

\* The strdup of pxshot_set_error, when it succeeds.
Messaged(m, dup) == IF dup THEN BlockAlloc(m, "set_error") ELSE m

\* pxshot_response_new(), when calloc succeeds.
NewResp == [NoResp EXCEPT !.at.self = "resp"]

\* pxshot_set_error without its first line: the message is set, the error
\* is left as it was.
pxshot_set_error_Silent(r, err, msg, dup) ==
    [r EXCEPT !.error_message = IF dup THEN msg ELSE NoString,
              !.at.error_message = IF dup THEN "set_error" ELSE "NULL"]

\* pxshot_set_error(resp, err, msg); dup tells whether its strdup succeeds.
pxshot_set_error(r, err, msg, dup) ==
    [r EXCEPT !.error = err,
              !.error_message = IF dup THEN msg ELSE NoString,
              !.at.error_message = IF dup THEN "set_error" ELSE "NULL"]

\* return resp; with the blocks as m
ShotReturns(r, m) ==
    /\ resp' = r
    /\ shot' = [shot EXCEPT !.pc = "done", !.returned = "resp",
                            !.blocks = m]

\* pxshot_set_error(resp, err, msg); return resp; from the blocks m
ShotFails(r, err, msg, dup, m) ==
    ShotReturns(pxshot_set_error(r, err, msg, dup), Messaged(m, dup))

\* The call up to the creation of the body.  given tells which of client
\* and opts is NULL, new whether pxshot_response_new succeeds.
ShotEnter(o, given, new, dup, f) ==
    /\ shot.pc = "idle"
    /\ IF ~new
       THEN /\ shot' = [shot EXCEPT !.pc = "done", !.op = "screenshot",
                                    !.opts = o, !.given = given,
                                    !.returned = "NULL"]
            /\ UNCHANGED <<resp, heap, tree>>
       ELSE IF given # "all" \/ o.url = NoString
       THEN /\ resp' = pxshot_set_error(NewResp, PXSHOT_ERR_INVALID_ARG,
                                        Str(<< "a" >>), dup)
            /\ shot' = [shot EXCEPT
                           !.pc = "done", !.op = "screenshot", !.opts = o,
                           !.given = given, !.returned = "resp",
                           !.blocks = Messaged(BlockAlloc(@, "resp"), dup)]
            /\ UNCHANGED <<heap, tree>>
       ELSE LET r == cJSON_CreateObject(Entering(heap, f))
            IN  /\ heap' = Settled(r.h)
                /\ tree' = r.p
                /\ IF r.p = NULL
                   THEN /\ resp' = pxshot_set_error(NewResp,
                                       PXSHOT_ERR_OUT_OF_MEMORY,
                                       Str(<< "c" >>), dup)
                        /\ shot' = [shot EXCEPT
                                       !.pc = "done", !.op = "screenshot",
                                       !.opts = o, !.given = given,
                                       !.returned = "resp",
                                       !.blocks = Messaged(
                                           BlockAlloc(@, "resp"), dup)]
                   ELSE /\ resp' = NewResp
                        /\ shot' = [shot EXCEPT
                                       !.pc = "fields", !.op = "screenshot",
                                       !.opts = o, !.given = given,
                                       !.i = NextField(o, 1),
                                       !.blocks = BlockAlloc(@, "resp")]
    /\ UNCHANGED <<input, jst, copy, sub, jres, calls>>

\* One cJSON_Add*ToObject(body, ...); what it returns is not looked at.
ShotAdd(f) ==
    /\ shot.pc = "fields"
    /\ shot.i <= Len(FieldNames)
    /\ LET r == AddField(Entering(heap, f), tree, shot.opts, shot.i)
       IN  /\ heap' = Settled(r.h)
           /\ shot' = [shot EXCEPT
                          !.i = NextField(shot.opts, shot.i + 1),
                          !.lost = IF r.p = NULL THEN @ \cup {shot.i} ELSE @]
    /\ UNCHANGED <<resp, input, jst, tree, copy, sub, jres, calls>>

\* json_str = cJSON_PrintUnformatted(body); cJSON_Delete(body);
\* if (!json_str) ...
ShotPrint(dup, f) ==
    /\ shot.pc = "fields"
    /\ shot.i > Len(FieldNames)
    /\ LET r == cJSON_PrintUnformatted(Entering(heap, f), tree)
       IN  /\ heap' = Settled(cJSON_Delete(r.h, tree))
           /\ tree' = NULL
           /\ IF r.out = NULL
              THEN ShotFails(resp, PXSHOT_ERR_OUT_OF_MEMORY, Str(<< "s" >>),
                             dup, shot.blocks)
              ELSE /\ shot' = [shot EXCEPT !.pc = "post", !.json_str = r.out]
                   /\ resp' = resp
    /\ UNCHANGED <<input, jst, copy, sub, jres, calls>>

\* From the allocation of the URL to the check of what curl_easy_perform
\* returned: url and auth tell whether the two malloc succeed, res is what
\* the transfer returns and body what it has put into the buffer.
ShotPerform(url, auth, res, body, dup) ==
    /\ shot.pc = "post"
    /\ shot.op = "screenshot"
    /\ heap' = Settled(FreeStr(heap, shot.json_str))
    /\ IF ~url \/ ~auth
       THEN /\ resp' = pxshot_set_error(resp, PXSHOT_ERR_OUT_OF_MEMORY,
                                        Str(<< "a" >>), dup)
            /\ shot' = [shot EXCEPT !.pc = "done", !.returned = "resp",
                                    !.json_str = NULL,
                                    !.blocks = Messaged(@, dup)]
       ELSE IF res # "CURLE_OK"
       THEN /\ resp' = pxshot_set_error(resp,
                           IF res = "CURLE_OPERATION_TIMEDOUT"
                           THEN PXSHOT_ERR_TIMEOUT
                           ELSE PXSHOT_ERR_CURL_PERFORM,
                           Str(<< "c" >>), dup)
            /\ shot' = [shot EXCEPT
                           !.pc = "done", !.returned = "resp",
                           !.json_str = NULL, !.res = res, !.buffer = body,
                           !.posted = Append(@, Text(heap, shot.json_str)),
                           !.blocks = Messaged(
                               BufferFreed(BufferFilled(@, body), body),
                               dup)]
       ELSE /\ resp' = resp
            /\ shot' = [shot EXCEPT
                           !.pc = "received", !.json_str = NULL,
                           !.res = res, !.buffer = body,
                           !.posted = Append(@, Text(heap, shot.json_str)),
                           !.blocks = BufferFilled(@, body)]
    /\ UNCHANGED <<input, jst, tree, copy, sub, jres, calls>>

\* cJSON_Parse((char *)buffer.data): of no buffer, and of the bytes
\* received, which pxshot_write_callback ends with a zero byte.
ParseBuffer(h, buffer) ==
    IF buffer = NoString
    THEN ParseFrom(Returns(cJSON_New_Item(h).h, NULL), << 0 >>,
                   cJSON_New_Item(h).p)
    ELSE cJSON_Parse(h, buffer \o << 0 >>)

\* if ((item = cJSON_GetObjectItem(json, name)) && cJSON_IsString(item))
\*     ... = pxshot_strdup(item->valuestring);
StringMember(h, json, name, dup) ==
    IF /\ cJSON_GetObjectItem(h, json, name).c # NULL
       /\ TypeOf(h.node[cJSON_GetObjectItem(h, json, name).c].type)
              = cJSON_String
       /\ dup
    THEN Text(h, h.node[cJSON_GetObjectItem(h, json, name).c].valuestring)
    ELSE NoString

\* if ((item = cJSON_GetObjectItem(json, name)) && cJSON_IsNumber(item))
\*     ... = item->valueint;
NumberMember(h, json, name) ==
    IF /\ cJSON_GetObjectItem(h, json, name).c # NULL
       /\ TypeOf(h.node[cJSON_GetObjectItem(h, json, name).c].type)
              = cJSON_Number
    THEN h.node[cJSON_GetObjectItem(h, json, name).c].valueint
    ELSE 0

\* Whether a lookup in json hands a null key to strcmp.
LookupFaults(h, json, name) ==
    cJSON_GetObjectItem(h, json, name).h.fault > h.fault

\* The pxshot_stored_t filled from json.
Stored(h, json, dup) ==
    [url |-> StringMember(h, json, Str(<< "u", "r", "l" >>), dup),
     expires_at |-> StringMember(h, json,
                        Str(<< "e", "x", "p", "i", "r", "e", "s", "_",
                               "a", "t" >>), dup),
     width |-> NumberMember(h, json, Str(<< "w", "i", "d", "t", "h" >>)),
     height |-> NumberMember(h, json,
                             Str(<< "h", "e", "i", "g", "h", "t" >>)),
     size_bytes |-> NumberMember(h, json,
                        Str(<< "s", "i", "z", "e", "_", "b", "y", "t", "e",
                               "s" >>))]

\* The function faults: it does not return.
ShotFaults(h) ==
    /\ heap' = Settled(h)
    /\ shot' = [shot EXCEPT !.pc = "crashed"]
    /\ resp' = resp

\* The strings of the pxshot_stored_t s that were allocated.
StoredAt(s) ==
    [url |-> IF s.url = NoString THEN "NULL" ELSE "stored.url",
     expires_at |-> IF s.expires_at = NoString THEN "NULL"
                    ELSE "stored.expires_at"]

\* The blocks m after the strings of s were allocated.
StoredBlocks(m, s) ==
    [m EXCEPT !.live = @ \cup ({StoredAt(s).url, StoredAt(s).expires_at}
                               \ {"NULL"})]

\* The "error" member of the document parsed as r, as line 510 copies it:
\* NoString when there is no document, no such string, or no memory.
ErrorMember(r, err) ==
    IF r.c = NULL THEN NoString
    ELSE StringMember(r.h, r.c, Str(<< "e", "r", "r", "o", "r" >>), err)

\* if (http_code >= 400) { ... return resp; } with the buffer parsed as r;
\* err tells whether the strdup of the "error" member succeeds, dup whether
\* the one of pxshot_set_error does.
ShotHttpError(code, r, err, dup) ==
    IF r.c # NULL /\ LookupFaults(r.h, r.c, Str(<< "e", "r", "r", "o", "r" >>))
    THEN ShotFaults(r.h)
    ELSE /\ heap' = Settled(cJSON_Delete(r.h, r.c))
         /\ ShotReturns(
                pxshot_set_error(
                    [resp EXCEPT !.http_status = code],
                    PXSHOT_ERR_HTTP_ERROR,
                    IF ErrorMember(r, err) # NoString
                    THEN ErrorMember(r, err) ELSE Str(<< "h" >>),
                    dup),
                Messaged(
                    BufferFreed(
                        IF ErrorMember(r, err) # NoString
                        THEN BlockAlloc(BufferParsed(shot.blocks,
                                                     shot.buffer), "error")
                        ELSE BufferParsed(shot.blocks, shot.buffer),
                        shot.buffer),
                    dup))

\* The stored-image branch, with the buffer parsed as r: new tells whether
\* the calloc of the pxshot_stored_t succeeds.
ShotStored(code, r, new, dup) ==
    IF r.c = NULL
    THEN /\ heap' = Settled(r.h)
         /\ ShotFails([resp EXCEPT !.http_status = code],
                      PXSHOT_ERR_JSON_PARSE, Str(<< "p" >>), dup,
                      BufferFreed(BufferParsed(shot.blocks, shot.buffer),
                                  shot.buffer))
    ELSE IF ~new
    THEN /\ heap' = Settled(cJSON_Delete(r.h, r.c))
         /\ ShotFails([resp EXCEPT !.http_status = code],
                      PXSHOT_ERR_OUT_OF_MEMORY, Str(<< "a" >>), dup,
                      BufferFreed(BufferParsed(shot.blocks, shot.buffer),
                                  shot.buffer))
    ELSE IF LookupFaults(r.h, r.c, Str(<< "u", "r", "l" >>))
    THEN ShotFaults(r.h)
    ELSE /\ heap' = Settled(cJSON_Delete(r.h, r.c))
         /\ ShotReturns(
                [resp EXCEPT !.http_status = code,
                             !.stored = << Stored(r.h, r.c, dup) >>,
                             !.at.stored = "stored",
                             !.at.url = StoredAt(Stored(r.h, r.c, dup)).url,
                             !.at.expires_at =
                                 StoredAt(Stored(r.h, r.c, dup)).expires_at,
                             !.error = PXSHOT_OK],
                StoredBlocks(
                    BlockAlloc(
                        BufferFreed(BufferParsed(shot.blocks, shot.buffer),
                                    shot.buffer),
                        "stored"),
                    Stored(r.h, r.c, dup)))

\* From curl_easy_getinfo(CURLINFO_RESPONSE_CODE) to the end: code is the
\* status, json whether the content type names application/json.
ShotRespond(code, json, new, err, dup, f) ==
    /\ shot.pc = "received"
    /\ shot.op = "screenshot"
    /\ IF code >= 400
       THEN ShotHttpError(code, ParseBuffer(Entering(heap, f), shot.buffer),
                          err, dup)
       ELSE IF shot.opts.store \/ json
       THEN ShotStored(code, ParseBuffer(Entering(heap, f), shot.buffer),
                       new, dup)
       ELSE /\ heap' = heap
            /\ ShotReturns([resp EXCEPT
                               !.http_status = code,
                               !.data = shot.buffer,
                               !.at.data = BufferAt(shot.buffer),
                               !.data_len = IF shot.buffer = NoString THEN 0
                                            ELSE Len(shot.buffer),
                               !.error = PXSHOT_OK],
                           shot.blocks)
    /\ UNCHANGED <<input, jst, tree, copy, sub, jres, calls>>

\* pxshot_get_usage up to the transfer: given tells which of client and
\* usage is NULL, new whether pxshot_response_new succeeds, url and auth
\* whether the two malloc do.
UsageEnter(given, new, url, auth, dup) ==
    /\ shot.pc = "idle"
    /\ IF ~new
       THEN /\ shot' = [shot EXCEPT !.pc = "done", !.op = "usage",
                                    !.given = given, !.returned = "NULL"]
            /\ resp' = resp
       ELSE IF given # "all"
       THEN /\ resp' = pxshot_set_error(NewResp, PXSHOT_ERR_INVALID_ARG,
                                        Str(<< "a" >>), dup)
            /\ shot' = [shot EXCEPT
                           !.pc = "done", !.op = "usage", !.given = given,
                           !.returned = "resp",
                           !.blocks = Messaged(BlockAlloc(@, "resp"), dup)]
       ELSE IF ~url \/ ~auth
       THEN /\ resp' = pxshot_set_error(NewResp, PXSHOT_ERR_OUT_OF_MEMORY,
                                        Str(<< "a" >>), dup)
            /\ shot' = [shot EXCEPT
                           !.pc = "done", !.op = "usage", !.given = given,
                           !.returned = "resp",
                           !.blocks = Messaged(BlockAlloc(@, "resp"), dup)]
       ELSE /\ resp' = NewResp
            /\ shot' = [shot EXCEPT !.pc = "post", !.op = "usage",
                                    !.given = given,
                                    !.blocks = BlockAlloc(@, "resp")]
    /\ UNCHANGED <<heap, input, jst, tree, copy, sub, jres, calls>>

\* CURLcode res = curl_easy_perform(curl); ... if (res != CURLE_OK) ...
UsagePerform(res, body, dup) ==
    /\ shot.pc = "post"
    /\ shot.op = "usage"
    /\ IF res # "CURLE_OK"
       THEN /\ resp' = pxshot_set_error(resp, PXSHOT_ERR_CURL_PERFORM,
                                        Str(<< "c" >>), dup)
            /\ shot' = [shot EXCEPT
                           !.pc = "done", !.returned = "resp",
                           !.res = res, !.buffer = body,
                           !.blocks = Messaged(
                               BufferFreed(BufferFilled(@, body), body),
                               dup)]
       ELSE /\ resp' = resp
            /\ shot' = [shot EXCEPT !.pc = "received", !.res = res,
                                    !.buffer = body,
                                    !.blocks = BufferFilled(@, body)]
    /\ UNCHANGED <<heap, input, jst, tree, copy, sub, jres, calls>>

\* The pxshot_usage_t filled from json.
Usage(h, json, dup) ==
    [screenshots_used |->
         NumberMember(h, json,
             Str(<< "s", "c", "r", "e", "e", "n", "s", "h", "o", "t", "s",
                    "_", "u", "s", "e", "d" >>)),
     screenshots_limit |->
         NumberMember(h, json,
             Str(<< "s", "c", "r", "e", "e", "n", "s", "h", "o", "t", "s",
                    "_", "l", "i", "m", "i", "t" >>)),
     storage_used_bytes |->
         NumberMember(h, json,
             Str(<< "s", "t", "o", "r", "a", "g", "e", "_", "u", "s", "e",
                    "d", "_", "b", "y", "t", "e", "s" >>)),
     storage_limit_bytes |->
         NumberMember(h, json,
             Str(<< "s", "t", "o", "r", "a", "g", "e", "_", "l", "i", "m",
                    "i", "t", "_", "b", "y", "t", "e", "s" >>)),
     period_start |->
         StringMember(h, json,
             Str(<< "p", "e", "r", "i", "o", "d", "_", "s", "t", "a", "r",
                    "t" >>), dup),
     period_end |->
         StringMember(h, json,
             Str(<< "p", "e", "r", "i", "o", "d", "_", "e", "n", "d" >>),
             dup)]

\* The rest of pxshot_get_usage after a status below 400, with the buffer
\* parsed as r: new tells whether the calloc of the pxshot_usage_t succeeds.
UsageParsed(code, r, new, dup) ==
    IF r.c = NULL
    THEN /\ heap' = Settled(r.h)
         /\ ShotFails([resp EXCEPT !.http_status = code],
                      PXSHOT_ERR_JSON_PARSE, Str(<< "p" >>), dup,
                      BufferFreed(BufferParsed(shot.blocks, shot.buffer),
                                  shot.buffer))
    ELSE IF ~new
    THEN /\ heap' = Settled(cJSON_Delete(r.h, r.c))
         /\ ShotFails([resp EXCEPT !.http_status = code],
                      PXSHOT_ERR_OUT_OF_MEMORY, Str(<< "a" >>), dup,
                      BufferFreed(BufferParsed(shot.blocks, shot.buffer),
                                  shot.buffer))
    ELSE IF LookupFaults(r.h, r.c,
                Str(<< "s", "c", "r", "e", "e", "n", "s", "h", "o", "t", "s",
                       "_", "u", "s", "e", "d" >>))
    THEN ShotFaults(r.h)
    ELSE /\ heap' = Settled(cJSON_Delete(r.h, r.c))
         /\ resp' = [resp EXCEPT !.http_status = code, !.error = PXSHOT_OK]
         /\ shot' = [shot EXCEPT
                        !.pc = "done", !.returned = "resp",
                        !.usage = << Usage(r.h, r.c, dup) >>,
                        !.blocks = BufferFreed(
                            BufferParsed(@, shot.buffer), shot.buffer)]

\* pxshot_get_usage from curl_easy_getinfo(CURLINFO_RESPONSE_CODE) on.
UsageRespond(code, new, dup, f) ==
    /\ shot.pc = "received"
    /\ shot.op = "usage"
    /\ IF code >= 400
       THEN /\ heap' = heap
            /\ ShotFails([resp EXCEPT !.http_status = code],
                         PXSHOT_ERR_HTTP_ERROR, Str(<< "h" >>), dup,
                         BufferFreed(shot.blocks, shot.buffer))
       ELSE UsageParsed(code, ParseBuffer(Entering(heap, f), shot.buffer),
                        new, dup)
    /\ UNCHANGED <<input, jst, tree, copy, sub, jres, calls>>

\* pxshot_response_free(resp) with what the call returned; it does nothing
\* with NULL.
pxshot_response_free(r, m) ==
    IF r.at.self = "NULL" THEN m
    ELSE BlockFree(
             IF r.at.stored = "NULL"
             THEN BlockFree(BlockFree(m, r.at.error_message), r.at.data)
             ELSE BlockFree(
                      BlockFree(
                          BlockFree(
                              BlockFree(BlockFree(m, r.at.error_message),
                                        r.at.data),
                              r.at.url),
                          r.at.expires_at),
                      r.at.stored),
             r.at.self)

\* The caller frees what the call returned.
ResponseFree ==
    /\ shot.pc = "done"
    /\ shot' = [shot EXCEPT
                   !.pc = "freed",
                   !.blocks = pxshot_response_free(
                       IF shot.returned = "NULL" THEN NoResp ELSE resp, @)]
    /\ UNCHANGED <<resp, heap, input, jst, tree, copy, sub, jres, calls>>

ShotInit == BufIdle /\ ConcIdle /\ JsonIdle /\ ShotIdle

ShotNext ==
    /\ \/ \E o \in ShotOpts, given \in Givens, new \in BOOLEAN,
             dup \in BOOLEAN, f \in FailPoints :
              ShotEnter(o, given, new, dup, f)
       \/ \E f \in FailPoints : ShotAdd(f)
       \/ \E dup \in BOOLEAN, f \in FailPoints : ShotPrint(dup, f)
       \/ \E url \in BOOLEAN, auth \in BOOLEAN, res \in CurlCodes,
             body \in ShotBodies, dup \in BOOLEAN :
              ShotPerform(url, auth, res, body, dup)
       \/ \E code \in HttpCodes, json \in BOOLEAN, new \in BOOLEAN,
             err \in BOOLEAN, dup \in BOOLEAN, f \in FailPoints :
              ShotRespond(code, json, new, err, dup, f)
       \/ \E given \in Givens, new \in BOOLEAN, url \in BOOLEAN,
             auth \in BOOLEAN, dup \in BOOLEAN :
              UsageEnter(given, new, url, auth, dup)
       \/ \E res \in CurlCodes, body \in ShotBodies, dup \in BOOLEAN :
              UsagePerform(res, body, dup)
       \/ \E code \in HttpCodes, new \in BOOLEAN, dup \in BOOLEAN,
             f \in FailPoints : UsageRespond(code, new, dup, f)
       \/ ResponseFree
    /\ UNCHANGED <<bvars, cvars>>

SpecShot == ShotInit /\ [][ShotNext]_vars

KeyOf(h, c) == Text(h, h.node[c].string)

Keys(h, item) == [i \in 1..Len(Children(h, item)) |-> KeyOf(h, Children(h, item)[i])]

\* A byte that JSON wants escaped inside a string.
NeedsEscape(b) == b = 34 \/ b = 92 \/ b < 32

PlainText(t) == \A i \in 1..Len(t) : ~NeedsEscape(t[i])

\* No key and no string of the document at c has a byte to escape.
Plain(h, c) ==
    \A x \in Reach(h, c) :
        /\ PlainText(KeyOf(h, x))
        /\ PlainText(Text(h, h.node[x].valuestring))

\* The documents at a and b are equivalent: the same kinds, numbers,
\* strings and keys, in the same order.
RECURSIVE Equivalent(_, _, _)
Equivalent(h, a, b) ==
    IF a = NULL \/ b = NULL THEN a = b
    ELSE LET x == h.node[a]
             y == h.node[b]
         IN  /\ TypeOf(x.type) = TypeOf(y.type)
             /\ TypeOf(x.type) = cJSON_Number => x.valuedouble = y.valuedouble
             /\ TypeOf(x.type) = cJSON_String =>
                    Text(h, x.valuestring) = Text(h, y.valuestring)
             /\ (x.string = NULL) = (y.string = NULL)
             /\ KeyOf(h, a) = KeyOf(h, b)
             /\ Equivalent(h, x.child, y.child)
             /\ Equivalent(h, x.next, y.next)

\* The printed text of a built document has been given to the parser.
ParsedBack ==
    /\ jres.kind = "parse"
    /\ jst \in {"reparsed", "refailed", "crashed"}
    /\ input.of = "built"

\* C6: round trip.  When a document built with the construction API has no
\* key or string with a byte that needs escaping, parsing its printed text
\* succeeds and gives an equivalent document: the same kind at every node,
\* the same numbers and strings, the same keys, the same order.
C6_RoundTrip ==
    ParsedBack /\ Plain(heap, tree) =>
        jst = "reparsed" /\ Equivalent(heap, tree, copy)

\* The documents that came out of the parser, with the text they came from.
ParsedDocs ==
    IF jst \in {"parsed", "looked"} THEN {tree}
    ELSE IF jst = "reparsed" THEN {copy}
    ELSE {}

\* The children of item are in the order their members have in the text:
\* each began behind the one before, and a key the text spells out without
\* a backslash is the key of its member.
InTextOrder(h, text, item) ==
    LET ch == Children(h, item)
    IN  /\ \A i \in 1..Len(ch) : \A j \in 1..Len(ch) :
               i < j => h.node[ch[i]].src < h.node[ch[j]].src
        /\ \A i \in 1..Len(ch) :
               LET at == h.node[ch[i]].src
                   key == KeyOf(h, ch[i])
               IN  /\ at \in 1..Len(text)
                   /\ (/\ TypeOf(h.node[item].type) = cJSON_Object
                       /\ at + Len(key) + 1 <= Len(text)
                       /\ \A k \in at + 1..at + Len(key) + 1 : text[k] # 92)
                      => /\ text[at] = 34
                         /\ SubSeq(text, at + 1, at + Len(key)) = key
                         /\ text[at + Len(key) + 1] = 34

\* child->next and next->prev agree along the children of item.
LinksConsistent(h, item) ==
    LET ch == Children(h, item)
    IN  \A i \in 1..Len(ch) :
            /\ h.node[ch[i]].next = (IF i < Len(ch) THEN ch[i + 1] ELSE NULL)
            /\ i > 1 => h.node[ch[i]].prev = ch[i - 1]

\* The items added to object, in the order of the calls.
AddedTo(object) ==
    LET mine == SelectSeq(calls, LAMBDA r : r.object = object)
    IN  [i \in 1..Len(mine) |-> mine[i].item]

\* The document the user holds was built, not parsed.
Built == tree # NULL /\ (jst = "built" \/ input.of = "built")

\* The documents at a and b have the same members in the same order: the
\* same kinds and the same keys.
RECURSIVE SameMembers(_, _, _)
SameMembers(h, a, b) ==
    IF a = NULL \/ b = NULL THEN a = b
    ELSE /\ TypeOf(h.node[a].type) = TypeOf(h.node[b].type)
         /\ KeyOf(h, a) = KeyOf(h, b)
         /\ SameMembers(h, h.node[a].child, h.node[b].child)
         /\ SameMembers(h, h.node[a].next, h.node[b].next)

\* C7: sibling order is the order of arrival.  The children of every array
\* and object the parser accepted are in the order of the text (for
\* {"a":1,"b":2,"c":3}: a, b, c), no member missing; the children of an
\* object built by calls of cJSON_AddItemToObject are the items added, in
\* call order, with next and prev agreeing; and the printed text has the
\* members in that same order.
C7_SiblingOrder ==
    /\ \A doc \in ParsedDocs :
           /\ \A c \in Containers(heap, doc) :
                  InTextOrder(heap, input.text, c) /\ LinksConsistent(heap, c)
           /\ jst = "parsed" => heap.liveN = Reach(heap, doc)
    /\ (jst = "parsed" /\ input.text = Docs[1]) =>
           Keys(heap, tree) = << Str(<< "a" >>), Str(<< "b" >>), Str(<< "c" >>) >>
    /\ Built =>
           \A c \in Objects(heap, tree) :
               Children(heap, c) = AddedTo(c) /\ LinksConsistent(heap, c)
    /\ (jres.kind = "parse" /\ jst \in {"reparsed", "refailed"}
            /\ Plain(heap, tree)) =>
           jst = "reparsed" /\ SameMembers(heap, tree, copy)

\* Two members were added to an object, b before a; the document was
\* printed and the text parsed back, b before a again.
C7_Witness ==
    /\ jst = "reparsed"
    /\ input.of = "built"
    /\ Keys(heap, tree) = << Str(<< "b" >>), Str(<< "a" >>) >>
    /\ Keys(heap, copy) = << Str(<< "b" >>), Str(<< "a" >>) >>

\* The first of the nodes ch whose key is name, NULL when there is none.
FirstWithKey(h, ch, name) ==
    LET hits == {i \in 1..Len(ch) :
                    h.node[ch[i]].string # NULL /\ KeyOf(h, ch[i]) = name}
    IN  IF hits = {} THEN NULL
        ELSE ch[CHOOSE i \in hits : \A j \in hits : i <= j]

\* C8: cJSON_GetObjectItem returns the first child, in sibling order, whose
\* key equals the name byte for byte, and NULL when no child has that key;
\* of {"x":1,"x":2} it returns for "x" the member whose value is 1.
C8_LookupFirstMatch ==
    (jres.kind = "get" /\ jst = "looked") =>
        /\ jres.ret = FirstWithKey(heap, Children(heap, tree), jres.arg)
        /\ (input.text = Docs[2] /\ jres.arg = Str(<< "x" >>)) =>
               /\ jres.ret # NULL
               /\ heap.node[jres.ret].valuedouble = [m |-> 1, e |-> 0]

\* "x" was looked up in {"x":1,"x":2}: two members have the key, the one
\* returned is the first.
C8_Witness ==
    /\ jst = "looked"
    /\ input.text = Docs[2]
    /\ jres.arg = Str(<< "x" >>)
    /\ Keys(heap, tree) = << Str(<< "x" >>), Str(<< "x" >>) >>
    /\ jres.ret = Children(heap, tree)[1]

\* The three texts the specification names: {"a":}  [1,2,  tru
NamedMalformed ==
    {Str(<< "{", "\"", "a", "\"", ":", "}" >>),
     Str(<< "[", "1", ",", "2", "," >>),
     Str(<< "t", "r", "u" >>)}

\* C9: whenever a production fails or an allocation fails while cJSON_Parse
\* runs, at whatever depth, cJSON_Parse returns NULL, not a partial
\* document; and when it returns NULL every node and every string it
\* allocated has been freed, each once: what is allocated afterwards is
\* what was allocated before.  {"a":}, [1,2, and tru are such texts.
C9_FailedParseFreesAll ==
    (jres.kind = "parse" /\ jst # "crashed") =>
        /\ (jres.failed \/ jres.oom) => jres.ret = NULL
        /\ input.text \in NamedMalformed => jres.ret = NULL
        /\ jres.ret = NULL =>
               /\ heap.liveN = jres.nodes0
               /\ heap.liveS = jres.strs0
               /\ heap.bad = jres.bad0

\* {"a":[1,{"b":"x"  was parsed: the text ends three containers deep, with
\* five nodes and three strings allocated, and the parse has failed.
C9_Witness ==
    /\ jst = "failed"
    /\ input.doc = 6
    /\ input.edit.kind = "truncate"
    /\ input.edit.at = 16
    /\ ~jres.oom
    /\ jres.failed
    /\ heap.liveN = {}
    /\ heap.liveS = {}

\* What the damage did to the text, told from the text as it was sent.
Sent == Docs[input.doc]

MissingComma ==
    /\ input.edit.kind = "delete"
    /\ Sent[input.edit.at] = 44
    /\ ~(IsDigit(Sent[input.edit.at - 1]) /\ IsDigit(Sent[input.edit.at + 1]))

MissingColon == input.edit.kind = "delete" /\ Sent[input.edit.at] = 58

NonStringKey ==
    /\ input.edit.kind = "replace"
    /\ input.edit.at \in KeyStarts[input.doc]
    /\ input.edit.byte \notin {34, 32}
    /\ ~(input.edit.byte = 125 /\ Sent[input.edit.at - 1] = 123)

EndBeforeClose ==
    /\ input.edit.kind = "truncate"
    /\ input.edit.at >= 1
    /\ Sent[1] \in {91, 123}

BadValueStart ==
    /\ input.edit.kind = "replace"
    /\ input.edit.at \in ValueStarts[input.doc]
    /\ input.edit.byte \in {Ch("x"), Ch(":"), Ch(","), Ch("\\"), Ch("}"), Ch("]")}
    /\ ~(/\ input.edit.byte = 93
         /\ input.edit.at > 1
         /\ Sent[input.edit.at - 1] = 91)

\* C10: a text whose array or object lacks a comma between members or a
\* colon after a key, has a member key that is not a string, or ends before
\* the closing ] or }, and a text with a byte at a value position that
\* starts no production, fails to parse.
C10_MalformedMembersFail ==
    (/\ jres.kind = "parse"
     /\ input.of = "wire"
     /\ jst \in {"parsed", "failed", "crashed"}
     /\ \/ MissingComma
        \/ MissingColon
        \/ NonStringKey
        \/ EndBeforeClose
        \/ BadValueStart)
    => jst = "failed"

(***************************************************************************)
(* Properties of the parser on short texts.                                *)
(***************************************************************************)

\* Where the closing quote of a string whose bytes begin at i is, a byte
\* behind a backslash not counting; 0 when the text ends first.
RECURSIVE ClosingQuote(_, _)
ClosingQuote(text, i) ==
    IF i > Len(text) THEN 0
    ELSE IF text[i] = 34 THEN i
    ELSE IF text[i] = 92 THEN ClosingQuote(text, i + 2)
    ELSE ClosingQuote(text, i + 1)

\* Where the first byte from i on is that is neither a space nor [.
RECURSIVE FirstToken(_, _)
FirstToken(text, i) ==
    IF i <= Len(text) /\ text[i] \in {32, 91} THEN FirstToken(text, i + 1)
    ELSE i

\* The first value of the text, or the first member of its arrays, is a
\* string that is opened and not closed before the text ends.
Unterminated(text) ==
    /\ FirstToken(text, 1) <= Len(text)
    /\ text[FirstToken(text, 1)] = 34
    /\ ClosingQuote(text, FirstToken(text, 1) + 1) = 0

\* cJSON_Parse has been called on one of the short texts.
TextParsed ==
    /\ jres.kind = "parse"
    /\ input.of = "text"
    /\ jst \in {"parsed", "failed", "crashed"}

\* C11: unterminated strings fail the parse.  When a string is opened by a
\* double quote and the text ends before an unescaped closing quote, also
\* when the last byte of the text is a backslash, cJSON_Parse returns NULL.
C11_UnterminatedStringsFail ==
    (TextParsed /\ Unterminated(input.text)) => jst = "failed"

\* The first k bytes of the text, parsed alone, are one complete value:
\* the parse succeeded and the value ended where they end.
PrefixIsValue ==
    /\ jst = "prefixed"
    /\ jres.ret # NULL
    /\ jres.end = input.edit.at + 1

\* The value of the prefix is a number, and the byte behind the prefix is
\* one the number production reads on with.
ContinuesNumber ==
    /\ TypeOf(heap.node[copy].type) = cJSON_Number
    /\ \/ IsDigit(input.text[input.edit.at + 1])
       \/ input.text[input.edit.at + 1] \in {Ch("."), Ch("e"), Ch("E")}

Brackets(text, open, close) ==
    /\ Len(text) >= 2
    /\ text[1] = open
    /\ text[Len(text)] = close
    /\ \A i \in 2..Len(text) - 1 : text[i] = 32

\* The document at c is a container of the given type with no children.
EmptyContainer(h, c, type) ==
    /\ c # NULL
    /\ TypeOf(h.node[c].type) = type
    /\ h.node[c].child = NULL

\* C18: empty containers.  Parsing [] gives an array with no children and
\* parsing {} an object with no children, also with whitespace between the
\* brackets; and printing such a value gives exactly [] and {}.
C18_EmptyContainers ==
    /\ (TextParsed /\ Brackets(input.text, Ch("["), Ch("]"))) =>
           jst = "parsed" /\ EmptyContainer(heap, tree, cJSON_Array)
    /\ (TextParsed /\ Brackets(input.text, Ch("{"), Ch("}"))) =>
           jst = "parsed" /\ EmptyContainer(heap, tree, cJSON_Object)
    /\ (jst = "printed" /\ EmptyContainer(heap, tree, cJSON_Array)) =>
           input.text = Str(<< "[", "]" >>)
    /\ (jst = "printed" /\ EmptyContainer(heap, tree, cJSON_Object)) =>
           input.text = Str(<< "{", "}" >>)

\* A text was parsed into an object with no children, and the object was
\* printed: {}
C18_Witness ==
    /\ jst = "printed"
    /\ input.of = "parsed"
    /\ EmptyContainer(heap, tree, cJSON_Object)
    /\ input.text = Str(<< "{", "}" >>)

(***************************************************************************)
(* Properties of the construction API.                                     *)
(***************************************************************************)

\* The arguments the specification wants refused.
InvalidAdd(h, object, string, item) ==
    \/ object = NULL
    \/ item = NULL
    \/ string = NoString
    \/ ~IsContainer(h, object)

\* C13: cJSON_AddItemToObject fails, and leaves the container's children
\* and the child as they were, whenever the container is not an array or
\* an object, or the container, the child or the key is null.
C13_InvalidAddFails ==
    [][(/\ jst = "built"
        /\ jst' = "added"
        /\ InvalidAdd(heap, jres'.end, jres'.arg, jres'.ret))
       => (jres'.failed /\ heap'.node = heap.node /\ heap'.str = heap.str)]_vars

\* The nodes that child and next lead to from the nodes of S, and S.
RECURSIVE Closure(_, _)
Closure(h, S) ==
    LET T == S \cup ({h.node[x].child : x \in S} \ {NULL})
                 \cup ({h.node[x].next : x \in S} \ {NULL})
    IN  IF T = S THEN S ELSE Closure(h, T)

\* The links that lead to x from the nodes of S.
LinksTo(h, S, x) ==
    {<<y, "child">> : y \in {z \in S : h.node[z].child = x}}
    \cup {<<y, "next">> : y \in {z \in S : h.node[z].next = x}}

\* The document at root is a strict tree: no link leads to the root, and
\* one link to each other node, so no node has two parents or is twice
\* among siblings, and no walk along child and next comes back.
StrictTree(h, root) ==
    root # NULL =>
        /\ LinksTo(h, Closure(h, {root}), root) = {}
        /\ \A x \in Closure(h, {root}) \ {root} :
               Cardinality(LinksTo(h, Closure(h, {root}), x)) = 1

\* C16: after any sequence of construction operations and after any
\* successful parse the document is a strict tree.
C16_StrictTree ==
    /\ jst \in {"built", "added", "parsed", "reparsed"} => StrictTree(heap, tree)
    /\ jst = "reparsed" => StrictTree(heap, copy)

(***************************************************************************)
(* Properties of lookup and of deletion.                                   *)
(***************************************************************************)

\* C14: cJSON_GetObjectItem on an array, empty or not, and on any other
\* value that is not an object returns NULL, not found, and does not hand
\* the null key of a child to strcmp.
C14_LookupOnArray ==
    (/\ jres.kind = "get"
     /\ jst \in {"looked", "crashed"}
     /\ TypeOf(heap.node[tree].type) # cJSON_Object)
    => jst = "looked" /\ jres.ret = NULL

\* The strings the nodes of the document at root hold: values and keys.
StringsOf(h, root) ==
    ({h.node[x].valuestring : x \in Reach(h, root)}
     \cup {h.node[x].string : x \in Reach(h, root)}) \ {NULL}

\* From heap h to heap h2 the document at root was released: its nodes and
\* their strings were allocated and are not any more, nothing else was
\* freed, and no free was given a block that was not allocated.
Released(h, h2, root) ==
    /\ Reach(h, root) \subseteq h.liveN
    /\ StringsOf(h, root) \subseteq h.liveS
    /\ h2.liveN = h.liveN \ Reach(h, root)
    /\ h2.liveS = h.liveS \ StringsOf(h, root)
    /\ h2.bad = h.bad

\* C15: cJSON_Delete of a document that the parser or the construction API
\* made releases every node of it, each node's string value and each
\* node's key, each once, and nothing else; cJSON_Delete(NULL) frees
\* nothing and changes nothing.
C15_DeleteReleasesAll ==
    [][/\ (jst' = "closing" /\ tree # NULL /\ tree' = NULL) =>
              Released(heap, heap', tree)
       /\ (jst' = "closing" /\ copy # NULL /\ copy' = NULL) =>
              Released(heap, heap', copy)
       /\ (jst' = "closing" /\ sub # NULL /\ sub' = NULL) =>
              Released(heap, heap', sub)
       /\ (jres'.kind = "deletenull" /\ jres.kind = "delete") =>
              heap' = heap /\ jres'.hi = 0]_vars

\* {"a":[1,{"b":"x"}]} was parsed and the document deleted: nothing is
\* allocated.
C15_Witness ==
    /\ jst = "closing"
    /\ jres.kind = "delete"
    /\ input.doc = 6
    /\ input.edit = NoEdit
    /\ tree = NULL
    /\ heap.liveN = {}
    /\ heap.liveS = {}
    /\ heap.bad = 0

(***************************************************************************)
(* Properties of the text of a number.                                     *)
(***************************************************************************)

\* A Number made by cJSON_CreateNumber is the document and has been
\* printed; the text is input.text.
NumberPrinted ==
    /\ jst \in {"printed", "reparsed", "refailed"}
    /\ input.of = "built"
    /\ tree # NULL
    /\ TypeOf(heap.node[tree].type) = cJSON_Number

\* d is not zero, has no fraction and lies within [INT_MIN, INT_MAX].
IntegerInRange(d) == d.m # 0 /\ d.e >= 0 /\ InIntRange(d)

\* C17: a Number whose value is zero prints as 0; any other whose value
\* is an integer within [INT_MIN, INT_MAX] prints as the decimal text of
\* that integer and parses back to it; every remaining value, and no other,
\* prints in the general float format.
C17_NumberText ==
    NumberPrinted =>
        /\ heap.node[tree].valuedouble.m = 0 => input.text = << 48 >>
        /\ IntegerInRange(heap.node[tree].valuedouble) =>
               /\ input.text = FormatD(IntOf(heap.node[tree].valuedouble))
               /\ jst # "refailed"
               /\ jst = "reparsed" =>
                      /\ heap.node[copy].type = cJSON_Number
                      /\ heap.node[copy].valuedouble
                             = heap.node[tree].valuedouble
                      /\ heap.node[copy].valueint
                             = IntOf(heap.node[tree].valuedouble)
        /\ (/\ heap.node[tree].valuedouble.m # 0
            /\ ~IntegerInRange(heap.node[tree].valuedouble)) =>
               input.text = FormatG(heap.node[tree].valuedouble)

(***************************************************************************)
(* Properties of pxshot_screenshot.                                        *)
(***************************************************************************)

\* C19: when an allocation fails while a line is added to the body of the
\* request or while the body is serialized, pxshot_screenshot returns
\* PXSHOT_ERR_OUT_OF_MEMORY and posts nothing: no body that lacks a line
\* the caller asked for is given to the transport.
C19_NoSwallowedFailure ==
    shot.lost # {} =>
        /\ shot.posted = << >>
        /\ shot.pc = "done" => resp.error = PXSHOT_ERR_OUT_OF_MEMORY

\* C20: a response of pxshot_screenshot with PXSHOT_OK has, for store =
\* false, data and data_len set and stored NULL, and for store = true,
\* stored set and data NULL; data and stored are never both set.
C20_DataOrStored ==
    (shot.pc = "done" /\ shot.returned = "resp" /\ resp.error = PXSHOT_OK)
    => /\ ~shot.opts.store =>
              /\ resp.data # NoString
              /\ resp.data_len = Len(resp.data)
              /\ resp.stored = NoStored
       /\ shot.opts.store => resp.stored # NoStored /\ resp.data = NoString
       /\ ~(resp.data # NoString /\ resp.stored # NoStored)

(***************************************************************************)
(* Properties of the parser's cursor.                                      *)
(***************************************************************************)

\* C24: while a zero-terminated text is parsed, no byte beyond its
\* terminating zero is examined and no pointer that a parse function
\* returns lies beyond it, whatever the text, one that ends inside a string
\* or right after a backslash included.
C24_CursorWithinInput ==
    (jres.kind = "parse" /\ input.of = "text") =>
        /\ jres.hi <= Len(input.text) + 1
        /\ jres.end <= Len(input.text) + 1
        /\ jst # "crashed"

(***************************************************************************)
(* Properties of the two-pass serializer.                                  *)
(***************************************************************************)

\* The text of a value that has no children, as print_value gives it.
LeafText(r) == Text(r.h, r.out)

\* What the text of a document has to be: the texts of the children of a
\* container in their order, each after its quoted key and ':' in an
\* object, one ',' between two siblings, within the brackets.
RECURSIVE Rendering(_, _)
RECURSIVE Joined(_, _, _)
Joined(h, child, keyed) ==
    IF child = NULL THEN << >>
    ELSE (IF keyed
          THEN LeafText(print_string(h, h.node[child].string)) \o << 58 >>
          ELSE << >>)
         \o Rendering(h, child)
         \o (IF h.node[child].next = NULL THEN << >>
             ELSE << 44 >> \o Joined(h, h.node[child].next, keyed))

Rendering(h, item) ==
    IF TypeOf(h.node[item].type) = cJSON_Array
    THEN << 91 >> \o Joined(h, h.node[item].child, FALSE) \o << 93 >>
    ELSE IF TypeOf(h.node[item].type) = cJSON_Object
    THEN << 123 >> \o Joined(h, h.node[item].child, TRUE) \o << 125 >>
    ELSE LeafText(print_value(h, item))

\* C25: in every array and object the serializer prints, the second pass
\* writes no more bytes, the terminating zero included, than the first
\* pass had counted and malloc was asked for; the text returned is one
\* string ended by a zero byte, with one ',' between siblings and none
\* after the last.
C25_TwoPassFits ==
    /\ heap.ovf = 0
    /\ (jst = "printed" /\ jres.kind = "print") =>
           /\ input.block \in heap.liveS
           /\ Len(heap.str[input.block].bytes) + 1
                  <= heap.str[input.block].size
           /\ \A i \in 1..Len(heap.str[input.block].bytes) :
                  heap.str[input.block].bytes[i] # 0
           /\ input.text = heap.str[input.block].bytes
           /\ input.text = Rendering(heap, tree)

\* {"a":[1,{"b":"x"}]}, an object in an array in an object, was printed.
C25_Witness ==
    /\ jst = "printed"
    /\ jres.kind = "print"
    /\ input.text = Docs[6]
    /\ Len(Children(heap, tree)) = 1
    /\ heap.ovf = 0

(***************************************************************************)
(* Properties of the requests.                                             *)
(***************************************************************************)

\* "block_ads", the name of the option that follows store in
\* pxshot_screenshot_opts_t.
BlockAdsName == Str(<< "b", "l", "o", "c", "k", "_", "a", "d", "s" >>)

\* Whether the caller set the documented option named by line i of the
\* body to something other than its zero value; url and format are always
\* expected; line Len(FieldNames) + 1 stands for block_ads.
Asked(o, i) ==
    CASE i = 1 -> TRUE
      [] i = 2 -> TRUE
      [] i = 3 -> o.quality # 0
      [] i = 4 -> o.width # 0
      [] i = 5 -> o.height # 0
      [] i = 6 -> o.full_page
      [] i = 7 -> o.wait_until # 0
      [] i = 8 -> o.wait_for_selector # NoString
      [] i = 9 -> o.wait_for_timeout # 0
      [] i = 10 -> o.device_scale_factor # 0
      [] i = 11 -> o.store
      [] i = 12 -> o.block_ads

\* How often the bytes pat occur in text from position i on.
RECURSIVE Occurrences(_, _, _)
Occurrences(text, pat, i) ==
    IF i + Len(pat) - 1 > Len(text) THEN 0
    ELSE (IF SubSeq(text, i, i + Len(pat) - 1) = pat THEN 1 ELSE 0)
         + Occurrences(text, pat, i + 1)

\* How often a serialized object has a member called name: "name":
Members(text, name) ==
    Occurrences(text, << 34 >> \o name \o << 34, 58 >>, 1)

\* C23: a body that pxshot_screenshot posts, no allocation having failed
\* while it was built, has url and format, has each documented option the
\* caller set to a non-default value exactly once under its own name,
\* block_ads included, and has no option left at its default.
C23_BodyCarriesOptions ==
    \A k \in 1..Len(shot.posted) :
        shot.lost = {} =>
            \A i \in 1..(Len(FieldNames) + 1) :
                Members(shot.posted[k],
                        IF i <= Len(FieldNames) THEN FieldNames[i]
                        ELSE BlockAdsName)
                    = IF Asked(shot.opts, i) THEN 1 ELSE 0

\* C21: when the transfer of pxshot_screenshot or of pxshot_get_usage ends
\* with the timed-out result the response returned has the error
\* PXSHOT_ERR_TIMEOUT, and when it ends with another failure the response
\* has PXSHOT_ERR_CURL_PERFORM.
C21_TimeoutReported ==
    (shot.pc = "done" /\ shot.returned = "resp"
     /\ shot.res \in CurlCodes \ {"CURLE_OK"})
    => resp.error = IF shot.res = "CURLE_OPERATION_TIMEDOUT"
                    THEN PXSHOT_ERR_TIMEOUT
                    ELSE PXSHOT_ERR_CURL_PERFORM

\* A call has returned a response whose transfer did not complete: an
\* argument was NULL, an allocation failed before the transfer, or
\* curl_easy_perform returned a failure.
NotCompleted ==
    /\ shot.pc = "done"
    /\ shot.returned = "resp"
    /\ shot.res # "CURLE_OK"

\* C22: the response of a request that did not complete at the transport
\* level has http_status 0, an error other than PXSHOT_OK, and neither data
\* nor stored; and every response with PXSHOT_OK has a status below 400.
C22_FailedRequestIsBlank ==
    /\ NotCompleted =>
           /\ resp.http_status = 0
           /\ resp.error # PXSHOT_OK
           /\ resp.data = NoString /\ resp.at.data = "NULL"
           /\ resp.data_len = 0
           /\ resp.stored = NoStored /\ resp.at.stored = "NULL"
    /\ (shot.pc = "done" /\ shot.returned = "resp"
        /\ resp.error = PXSHOT_OK) => resp.http_status < 400

\* pxshot_screenshot timed out after bytes had arrived, and returned.
C22_Witness ==
    /\ NotCompleted
    /\ shot.op = "screenshot"
    /\ shot.res = "CURLE_OPERATION_TIMEDOUT"
    /\ shot.buffer # NoString
    /\ resp.error = PXSHOT_ERR_TIMEOUT

\* A call has returned after a transfer that put bytes into the buffer.
Transferred ==
    /\ shot.pc = "done"
    /\ shot.returned = "resp"
    /\ shot.res \in CurlCodes
    /\ shot.buffer # NoString

\* C26: on every path of pxshot_screenshot and pxshot_get_usage that
\* returns after the transfer, the storage of the buffer was either freed
\* once or handed to resp->data as it is, never both and never neither,
\* and it was not read after it was freed.
C26_BufferFreedOrHandedOver ==
    /\ ~shot.blocks.stale
    /\ shot.pc \in {"post", "received", "done"} => shot.blocks.bad = 0
    /\ shot.pc = "received" =>
           ("buffer" \in shot.blocks.live <=> shot.buffer # NoString)
    /\ Transferred =>
           /\ "buffer" \in shot.blocks.live <=> resp.at.data = "buffer"
           /\ resp.at.data = "buffer" => resp.data = shot.buffer

\* pxshot_screenshot has parsed the answer into a pxshot_stored_t and
\* returned: the buffer was parsed, then freed, and is not the data.
C26_Witness ==
    /\ Transferred
    /\ shot.op = "screenshot"
    /\ resp.stored # NoStored
    /\ "buffer" \notin shot.blocks.live
    /\ resp.at.data = "NULL"

\* The blocks the response r refers to.
Referenced(r) ==
    {r.at.self, r.at.error_message, r.at.data, r.at.stored, r.at.url,
     r.at.expires_at} \ {"NULL"}

\* C27: when pxshot_screenshot or pxshot_get_usage has returned, every
\* block allocated for the response is referred to by the response, and
\* once pxshot_response_free was called with what they returned, NULL
\* included, no block is left allocated and none was freed twice.
C27_ResponseFreeReleasesAll ==
    /\ (shot.pc = "done" /\ shot.returned = "resp") =>
           shot.blocks.live \subseteq Referenced(resp)
    /\ (shot.pc = "done" /\ shot.returned = "NULL") => shot.blocks.live = {}
    /\ shot.pc = "freed" =>
           shot.blocks.live = {} /\ shot.blocks.bad = 0

=============================================================================
